---- MODULE Spec2Model ----
(***************************************************************************)
(* Adversarial training orchestrator of stylegan2-ada-3d-texture.          *)
(*                                                                         *)
(* Four LightningModule trainers share one training_step skeleton:         *)
(*   "stylegan" src/trainer/train_stylegan.py                              *)
(*   "light"    src/trainer/train_stylegan_real_feature_light.py           *)
(*   "patch"    src/trainer/train_stylegan_real_feature_patch.py           *)
(*   "sparse"   src/trainer/train_stylegan_real_car_sdfgrid_sparse.py      *)
(*                                                                         *)
(* Spec      one trainer running training iterations, one action per       *)
(*           sub-step of training_step.                                    *)
(* SpecStep  the module-level helper step(opt, module) on gradient tensors.*)
(* SpecPatch the patch sampler extract_patches_from_tensor on masks.       *)
(* SpecAda   Spec with an adaptive augmentation pipe.                      *)
(* SpecEma   the shadow parameters over the hooks of a run of fit().       *)
(* SpecCadence construction and the cadence tests for any interval.        *)
(* SpecLoss  the loss each regularizer back-propagates.                    *)
(* SpecFrame the parameters each sub-step changes.                         *)
(* SpecHooks the lifecycle hooks in any order.                             *)
(* SpecShape the shape of the patch critic's input.                        *)
(* SpecCreate create_trainer: the experiment name and the validation       *)
(*           schedule handed to the Trainer.                               *)
(***************************************************************************)
EXTENDS Integers, Sequences, FiniteSets, TLC

VARIABLES
    trainer,      \* which of the four trainer modules is running
    config,       \* the hydra config fields the cadence checks read
    R,            \* self.R   ("None" until a start hook creates it)
    ema,          \* self.ema ("None" until a start hook creates it)
    global_step,  \* LightningModule.global_step
    pc,           \* position inside training_step
    trace,        \* sub-steps invoked so far in the current iteration
    optCount,     \* optimizer steps performed by each sub-step this iteration
    last,         \* the latest loss sub-step of the iteration: loss, gradients, optimizer step
    gsRead,       \* global_step values read by the cadence checks this iteration
    iterations,   \* training_step calls started so far
    firedAt,      \* global_step values at which g_regularizer was invoked
    stepIn,       \* SpecStep: gradients of the module before step()
    stepOut,      \* SpecStep: gradients after step(), and opt.step() calls
    t_mask,       \* SpecPatch: masks of the batch, one set of positive pixels per image
    patches_per_view, \* SpecPatch: argument patches_per_view
    patch_size,   \* SpecPatch: argument patch_size
    idx,          \* SpecPatch: loop index over the batch
    patches,      \* SpecPatch: crops appended so far
    outcome,      \* SpecPatch: "running", "returned" or the exception raised
    G_params,     \* SpecEma: live values of self.G.parameters()
    requires_grad, \* SpecEma: the parameters of G with requires_grad
    shadow_params, \* SpecEma: self.ema's shadow values, one per trainable parameter
    collected_params, \* SpecEma: the values self.ema.store() put aside
    at_store,     \* SpecEma: live and shadow values when store() was last called
    augment_pipe, \* SpecAda: self.augment_pipe (p, mode, sign accumulator)
    param_version, \* SpecFrame: optimizer or EMA updates applied to each module's parameters
    param_grad,   \* SpecFrame: the modules whose parameters hold a gradient
    environ,      \* SpecCreate: os.environ.get('experiment')
    experiment,   \* SpecCreate: what the latest generate_experiment_name call returned
    calls,        \* SpecCreate: calls of create_trainer made so far
    gpu_count,    \* SpecCreate: torch.cuda.device_count()
    trainer_kwargs \* SpecCreate: the arguments create_trainer hands to Trainer

trainerVars ==
    <<trainer, config, R, ema, global_step, pc, trace, optCount, last,
      gsRead, iterations, firedAt>>

stepVars ==
    <<stepIn, stepOut>>

patchVars ==
    <<t_mask, patches_per_view, patch_size, idx, patches, outcome>>

emaVars ==
    <<G_params, requires_grad, shadow_params, collected_params, at_store>>

adaVars ==
    <<augment_pipe>>

frameVars ==
    <<param_version, param_grad>>

createVars ==
    <<environ, experiment, calls, gpu_count, trainer_kwargs>>

vars ==
    <<trainerVars, stepVars, patchVars, emaVars, adaVars, frameVars, createVars>>

----------------------------------------------------------------------------
(* Bounds of the model *)

MaxSteps ==
    10

MaxPlpInterval ==
    4

MaxGpInterval ==
    2

MaxAdaInterval ==
    2

MaxAfter ==
    1

----------------------------------------------------------------------------
(* Gradient tensors.  An entry is a tagged pair so that NaN and the two    *)
(* infinities are values distinct from every finite number.                *)

NaN ==
    <<"nan", 0>>

PosInf ==
    <<"inf", 1>>

NegInf ==
    <<"inf", -1>>

Fin(v) ==
    <<"fin", v>>

IsFinite(e) ==
    e[1] = "fin"

\* param.grad is None
NoGrad ==
    [present |-> FALSE, g |-> <<>>]

Grad(entries) ==
    [present |-> TRUE, g |-> entries]

\* torch.nan_to_num(x, nan=, posinf=, neginf=) on one entry
nan_to_num(e, nan, posinf, neginf) ==
    CASE e = NaN -> Fin(nan)
      [] e = PosInf -> Fin(posinf)
      [] e = NegInf -> Fin(neginf)
      [] OTHER -> e

\* a plausible slip: negative infinity mapped to the positive bound
step_wrong_neginf(grads, module) ==
    [grads |-> [m \in DOMAIN grads |->
                  IF m = module
                  THEN [i \in DOMAIN grads[m] |->
                          IF grads[m][i].present
                          THEN Grad([j \in DOMAIN grads[m][i].g |->
                                       nan_to_num(grads[m][i].g[j], 0, 100000, 100000)])
                          ELSE grads[m][i]]
                  ELSE grads[m]],
     opt_steps |-> 1]

\* step(opt, module): sanitize the gradients of `module` in place, then opt.step().
\* grads maps every module the optimizer owns to the list of its parameters'
\* gradients; the result is what opt.step() consumes.
step(grads, module) ==
    [grads |-> [m \in DOMAIN grads |->
                  IF m = module
                  THEN [i \in DOMAIN grads[m] |->
                          IF grads[m][i].present
                          THEN Grad([j \in DOMAIN grads[m][i].g |->
                                       nan_to_num(grads[m][i].g[j], 0, 100000, -100000)])
                          ELSE grads[m][i]]
                  ELSE grads[m]],
     opt_steps |-> 1]

\* opt.step() called directly (train_stylegan.py): nothing is sanitized
opt_step(grads) ==
    [grads |-> grads, opt_steps |-> 1]

----------------------------------------------------------------------------
(* Configuration and construction *)

Trainers ==
    {"stylegan", "light", "patch", "sparse"}

\* the sub-steps a training_step can invoke, in the order of the source text
SubSteps ==
    <<"g_step", "g_regularizer", "ema_update", "d_step", "patch_d_step",
      "d_regularizer", "patch_d_regularizer", "heuristic_update">>

SubStepSet ==
    {SubSteps[i] : i \in DOMAIN SubSteps}

\* only train_stylegan_real_feature_patch.py builds self.patch_D
HasPatchCritic(t) ==
    t = "patch"

\* the sparse trainer has the g_regularizer call commented out of training_step
CallsGRegularizer(t) ==
    t # "sparse"

\* train_stylegan.py calls g_opt.step()/d_opt.step() itself; the other three
\* go through the module-level helper step(opt, module)
UsesStepHelper(t) ==
    t # "stylegan"

\* configure_optimizers: the modules whose parameters g_opt owns
GOptModules(t, cfg) ==
    CASE t = "stylegan" -> {"G"}
      [] t = "light" -> {"G", "E"}
                          \cup (IF cfg.optimize_lights THEN {"light_mean"} ELSE {})
                          \cup (IF cfg.optimize_shininess THEN {"global_shininess"} ELSE {})
      [] OTHER -> {"G", "E"}

\* configure_optimizers: the modules owned by the optimizer a sub-step uses
OptModules(t, cfg, sub) ==
    CASE sub \in {"g_step", "g_regularizer"} -> GOptModules(t, cfg)
      [] sub \in {"d_step", "d_regularizer"} -> {"D"}
      [] sub \in {"patch_d_step", "patch_d_regularizer"} -> {"patch_D"}

\* the module a sub-step hands to step(opt, module)
SteppedModule(sub) ==
    CASE sub \in {"g_step", "g_regularizer"} -> "G"
      [] sub \in {"d_step", "d_regularizer"} -> "D"
      [] sub \in {"patch_d_step", "patch_d_regularizer"} -> "patch_D"

Configs(t) ==
    [lazy_path_penalty_interval : 1..MaxPlpInterval,
     lazy_path_penalty_after : 0..MaxAfter,
     lazy_gradient_penalty_interval : 1..MaxGpInterval,
     ada_interval : 1..MaxAdaInterval,
     optimize_lights : IF t = "light" THEN BOOLEAN ELSE {FALSE},
     optimize_shininess : IF t = "light" THEN BOOLEAN ELSE {FALSE},
     ada_fixed : {TRUE},
     ada_start_p : {0}]

----------------------------------------------------------------------------
(* The augmentation controller self.augment_pipe.  The probability p is an  *)
(* integer number of steps of 1 / PScale, so that 0..PScale is [0, 1].      *)

PScale ==
    3

\* the sign of a critic output
Signs ==
    {-1, 1}

\* ada_target as the rational TargetNum / TargetDen
TargetNum ==
    1

TargetDen ==
    2

\* AugmentPipe(ada_start_p, ada_target, ada_interval, ada_fixed, ...)
AugmentPipe(cfg) ==
    [p |-> cfg.ada_start_p, fixed |-> cfg.ada_fixed,
     adjust |-> cfg.ada_interval, acc |-> 0, n |-> 0]

\* accumulate_real_sign(sign): in adaptive mode the sign joins the statistic
accumulate_real_sign(pipe, sign) ==
    IF pipe.fixed
    THEN pipe
    ELSE [pipe EXCEPT !.acc = @ + sign, !.n = @ + 1]

Clamp(x, lo, hi) ==
    IF x < lo THEN lo ELSE IF x > hi THEN hi ELSE x

\* heuristic_update(): in adaptive mode p moves one adjustment step up when
\* the mean sign acc / n is above the target, down when it is below, and is
\* clamped to [0, 1]; the statistic starts afresh
heuristic_update(pipe) ==
    IF pipe.fixed \/ pipe.n = 0
    THEN pipe
    ELSE LET error == pipe.acc * TargetDen - TargetNum * pipe.n
             direction == IF error > 0 THEN 1 ELSE IF error < 0 THEN -1 ELSE 0
         IN  [pipe EXCEPT !.p = Clamp(@ + direction * pipe.adjust, 0, PScale),
                          !.acc = 0, !.n = 0]

NoLast ==
    [substep |-> "none", loss_nan |-> FALSE, raised |-> FALSE,
     raw |-> <<>>, used |-> <<>>, opt_steps |-> 0]

ZeroCount ==
    [s \in SubStepSet |-> 0]

\* StyleGAN2Trainer.__init__: self.R = None, self.ema = None
InitTrainer ==
    /\ trainer \in Trainers
    /\ config \in Configs(trainer)
    /\ R = "None"
    /\ ema = "None"
    /\ global_step = 0
    /\ pc = "constructed"
    /\ trace = <<>>
    /\ optCount = ZeroCount
    /\ last = NoLast
    /\ gsRead = <<>>
    /\ iterations = 0
    /\ firedAt = {}

IdleStep ==
    /\ stepIn = <<>>
    /\ stepOut = <<>>

IdlePatch ==
    /\ t_mask = <<>>
    /\ patches_per_view = 0
    /\ patch_size = 0
    /\ idx = 0
    /\ patches = <<>>
    /\ outcome = "unused"

IdleEma ==
    /\ G_params = <<>>
    /\ requires_grad = {}
    /\ shadow_params = <<>>
    /\ collected_params = <<>>
    /\ at_store = <<>>

IdleAda ==
    augment_pipe = <<>>

IdleFrame ==
    /\ param_version = <<>>
    /\ param_grad = {}

IdleCreate ==
    /\ environ = <<>>
    /\ experiment = <<>>
    /\ calls = 0
    /\ gpu_count = 0
    /\ trainer_kwargs = <<>>

Init ==
    /\ InitTrainer
    /\ IdleStep
    /\ IdleFrame
    /\ IdlePatch
    /\ IdleEma
    /\ IdleCreate
    /\ augment_pipe = AugmentPipe(config)

----------------------------------------------------------------------------
(* One training iteration *)

\* a plausible slip: the cadence tested on global_step instead of global_step + 1
CadenceFires_off_by_one(gs, interval) ==
    gs % interval = 0

\* `(self.global_step + 1) % interval == 0`
CadenceFires(gs, interval) ==
    (gs + 1) % interval = 0

\* a plausible slip: the cadence tested on global_step instead of global_step + 1
GRegFires_off_by_one(gs, cfg) ==
    /\ gs > cfg.lazy_path_penalty_after
    /\ gs % cfg.lazy_path_penalty_interval = 0

\* `self.global_step > lazy_path_penalty_after and (self.global_step + 1) % lazy_path_penalty_interval == 0`
GRegFires(gs, cfg) ==
    /\ gs > cfg.lazy_path_penalty_after
    /\ CadenceFires(gs, cfg.lazy_path_penalty_interval)

\* gradient of one parameter as a backward pass of a finite loss can leave it
\* (overflowed or finite); a NaN loss leaves NaN, see RawGrads
BackwardGrads ==
    {Grad(<<PosInf>>), Grad(<<Fin(1)>>)}

\* the modules of the sub-step's optimizer that its loss depends on: the
\* regularizer detaches batch['shape'], so the encoder gets no gradient there
Participates(sub, m) ==
    ~(sub = "g_regularizer" /\ m = "E")

\* gradients after zero_grad(set_to_none=True) and the sub-step's backward
\* passes; a NaN loss back-propagates NaN into every gradient it reaches
RawGrads(t, cfg, sub, loss_nan) ==
    {g \in [OptModules(t, cfg, sub) ->
                {<<NoGrad>>, <<Grad(<<NaN>>)>>} \cup {<<b>> : b \in BackwardGrads}] :
        \A m \in DOMAIN g :
            IF Participates(sub, m)
            THEN IF loss_nan THEN g[m] = <<Grad(<<NaN>>)>> ELSE g[m][1] \in BackwardGrads
            ELSE g[m] = <<NoGrad>>}

\* a plausible slip: the optimizer step skipped when a gradient is not finite
RunOptimizer_skips_nonfinite(t, sub, raw) ==
    IF \E m \in DOMAIN raw : raw[m][1].present /\ ~IsFinite(raw[m][1].g[1])
    THEN [grads |-> raw, opt_steps |-> 0]
    ELSE step(raw, SteppedModule(sub))

\* the optimizer call that ends a sub-step
RunOptimizer(t, sub, raw) ==
    IF UsesStepHelper(t)
    THEN step(raw, SteppedModule(sub))
    ELSE opt_step(raw)

\* a sub-step that computed its loss, back-propagated it and stepped its optimizer
Stepped(sub, loss_nan, raw) ==
    LET r == RunOptimizer(trainer, sub, raw)
    IN  /\ last' = [substep |-> sub, loss_nan |-> loss_nan, raised |-> FALSE,
                    raw |-> raw, used |-> r.grads, opt_steps |-> r.opt_steps]
        /\ optCount' = [optCount EXCEPT ![sub] = @ + r.opt_steps]
        /\ trace' = Append(trace, sub)

\* extract_patches_from_tensor raised inside the sub-step: the exception leaves
\* training_step, nothing after it in the iteration runs
Raised(sub) ==
    /\ last' = [substep |-> sub, loss_nan |-> FALSE, raised |-> TRUE,
                raw |-> <<>>, used |-> <<>>, opt_steps |-> 0]
    /\ trace' = Append(trace, sub)
    /\ pc' = "raised"
    /\ UNCHANGED optCount

\* the self.log calls of a sub-step: the keys logged, each with the kind of
\* value it carries (a NaN loss is logged as NaN)
LogEntries(t, sub, loss_nan) ==
    LET kind == IF loss_nan THEN "nan" ELSE "finite"
        keys == CASE sub = "g_step" ->
                       IF HasPatchCritic(t) THEN {"G", "G_patch"} ELSE {"G"}
                  [] sub = "g_regularizer" ->
                       IF loss_nan THEN {} ELSE {"rPLP"}
                  [] sub = "d_step" -> {"D_real", "D_fake", "D"}
                  [] sub = "patch_d_step" -> {"patch_D_real", "patch_D_fake", "patch_D"}
                  [] sub = "d_regularizer" -> {"rGP"}
                  [] sub = "patch_d_regularizer" -> {"patch_rGP"}
                  [] OTHER -> {}
    IN  {<<k, kind>> : k \in keys}

\* on_train_start: both attributes are created only if still None
on_train_start ==
    /\ pc = "constructed"
    /\ ema' = (IF ema = "None" THEN "ExponentialMovingAverage" ELSE ema)
    /\ R' = (IF R = "None" THEN "Renderer" ELSE R)
    /\ pc' = "idle"
    /\ UNCHANGED <<stepVars, frameVars, createVars, patchVars, emaVars, adaVars, trainer, config, global_step, trace, optCount, last, gsRead,
                   iterations, firedAt>>

\* entry of training_step (set_shape_codes, then the generator step is next)
training_step ==
    /\ pc = "idle"
    /\ global_step < MaxSteps
    /\ pc' = "g_step"
    /\ trace' = <<>>
    /\ optCount' = ZeroCount
    /\ gsRead' = <<>>
    /\ iterations' = iterations + 1
    /\ UNCHANGED <<stepVars, frameVars, createVars, patchVars, emaVars, adaVars, trainer, config, R, ema, global_step, last, firedAt>>

\* a plausible slip: the step counter advanced by the generator's optimizer step
g_step_advances_counter ==
    /\ pc = "g_step"
    /\ \/ /\ HasPatchCritic(trainer)
          /\ Raised("g_step")
       \/ /\ \E loss_nan \in BOOLEAN :
                \E raw \in RawGrads(trainer, config, "g_step", loss_nan) :
                    Stepped("g_step", loss_nan, raw)
          /\ pc' = "g_reg"
    /\ global_step' = global_step + 1
    /\ UNCHANGED <<stepVars, frameVars, createVars, patchVars, emaVars, adaVars, trainer, config, R, ema, gsRead, iterations, firedAt>>

g_step ==
    /\ pc = "g_step"
    /\ \/ /\ HasPatchCritic(trainer)
          /\ Raised("g_step")
       \/ /\ \E loss_nan \in BOOLEAN :
                \E raw \in RawGrads(trainer, config, "g_step", loss_nan) :
                    Stepped("g_step", loss_nan, raw)
          /\ pc' = "g_reg"
    /\ UNCHANGED <<stepVars, frameVars, createVars, patchVars, emaVars, adaVars, trainer, config, R, ema, global_step, gsRead, iterations, firedAt>>

\* the cadence test of training_step is true: g_regularizer runs
g_regularizer ==
    /\ pc = "g_reg"
    /\ CallsGRegularizer(trainer)
    /\ GRegFires(global_step, config)
    /\ gsRead' = Append(gsRead, global_step)
    /\ firedAt' = firedAt \cup {global_step}
    /\ \/ \* torch.isnan(plp): no backward, no step
          /\ last' = [substep |-> "g_regularizer", loss_nan |-> TRUE, raised |-> FALSE,
                      raw |-> <<>>, used |-> <<>>, opt_steps |-> 0]
          /\ trace' = Append(trace, "g_regularizer")
          /\ UNCHANGED optCount
       \/ \E raw \in RawGrads(trainer, config, "g_regularizer", FALSE) :
              Stepped("g_regularizer", FALSE, raw)
    /\ pc' = "ema"
    /\ UNCHANGED <<stepVars, frameVars, createVars, patchVars, emaVars, adaVars, trainer, config, R, ema, global_step, iterations>>

\* the cadence test is false, or (sparse trainer) the call is commented out
skip_g_regularizer ==
    /\ pc = "g_reg"
    /\ IF CallsGRegularizer(trainer)
       THEN /\ ~GRegFires(global_step, config)
            /\ gsRead' = Append(gsRead, global_step)
       ELSE UNCHANGED gsRead
    /\ pc' = "ema"
    /\ UNCHANGED <<stepVars, frameVars, createVars, patchVars, emaVars, adaVars, trainer, config, R, ema, global_step, trace, optCount, last,
                   iterations, firedAt>>

\* a plausible slip: the shadow update left out of training_step
ema_update_left_out ==
    /\ pc = "ema"
    /\ pc' = "d_step"
    /\ UNCHANGED <<stepVars, frameVars, createVars, patchVars, emaVars, adaVars, trainer, config, R, ema, global_step,
                   trace, optCount, last, gsRead, iterations, firedAt>>

\* self.ema.update(self.G.parameters())
ema_update ==
    /\ pc = "ema"
    /\ trace' = Append(trace, "ema_update")
    /\ pc' = "d_step"
    /\ UNCHANGED <<stepVars, frameVars, createVars, patchVars, emaVars, adaVars, trainer, config, R, ema, global_step, optCount, last, gsRead,
                   iterations, firedAt>>

\* a plausible slip: the patch critic's adversarial step left out
d_step_forgets_patch_critic ==
    /\ pc = "d_step"
    /\ \E loss_nan \in BOOLEAN :
          \E raw \in RawGrads(trainer, config, "d_step", loss_nan) :
              Stepped("d_step", loss_nan, raw)
    /\ pc' = "d_reg"
    /\ UNCHANGED <<stepVars, frameVars, createVars, patchVars, emaVars, adaVars, trainer, config, R, ema, global_step, gsRead, iterations, firedAt>>

\* a plausible slip: the accumulate_real_sign call left out
d_step_records_no_sign ==
    /\ pc = "d_step"
    /\ \E loss_nan \in BOOLEAN :
          \E raw \in RawGrads(trainer, config, "d_step", loss_nan) :
              Stepped("d_step", loss_nan, raw)
    /\ pc' = (IF HasPatchCritic(trainer) THEN "patch_d_step" ELSE "d_reg")
    /\ UNCHANGED <<stepVars, frameVars, createVars, patchVars, emaVars, adaVars, trainer, config, R, ema, global_step, gsRead, iterations, firedAt>>

\* the critic's adversarial step; the sign of its output on the real samples
\* goes to the augmentation controller
d_step ==
    /\ pc = "d_step"
    /\ \E loss_nan \in BOOLEAN :
          \E raw \in RawGrads(trainer, config, "d_step", loss_nan) :
              Stepped("d_step", loss_nan, raw)
    /\ \E sign \in Signs :
          augment_pipe' = accumulate_real_sign(augment_pipe, sign)
    /\ pc' = (IF HasPatchCritic(trainer) THEN "patch_d_step" ELSE "d_reg")
    /\ UNCHANGED <<stepVars, frameVars, createVars, patchVars, emaVars, trainer, config, R, ema, global_step, gsRead, iterations, firedAt>>

patch_d_step ==
    /\ pc = "patch_d_step"
    /\ \/ Raised("patch_d_step")
       \/ /\ \E loss_nan \in BOOLEAN :
                \E raw \in RawGrads(trainer, config, "patch_d_step", loss_nan) :
                    Stepped("patch_d_step", loss_nan, raw)
          /\ pc' = "d_reg"
    /\ UNCHANGED <<stepVars, frameVars, createVars, patchVars, emaVars, adaVars, trainer, config, R, ema, global_step, gsRead, iterations, firedAt>>

\* a plausible slip: the patch critic's regularization left out of the `if`
d_regularizer_forgets_patch_critic ==
    /\ pc = "d_reg"
    /\ CadenceFires(global_step, config.lazy_gradient_penalty_interval)
    /\ gsRead' = Append(gsRead, global_step)
    /\ \E loss_nan \in BOOLEAN :
          \E raw \in RawGrads(trainer, config, "d_regularizer", loss_nan) :
              Stepped("d_regularizer", loss_nan, raw)
    /\ pc' = "ada"
    /\ UNCHANGED <<stepVars, frameVars, createVars, patchVars, emaVars, adaVars, trainer, config, R, ema, global_step, iterations, firedAt>>

\* the critic cadence test is true: d_regularizer runs (no NaN test in it)
d_regularizer ==
    /\ pc = "d_reg"
    /\ CadenceFires(global_step, config.lazy_gradient_penalty_interval)
    /\ gsRead' = Append(gsRead, global_step)
    /\ \E loss_nan \in BOOLEAN :
          \E raw \in RawGrads(trainer, config, "d_regularizer", loss_nan) :
              Stepped("d_regularizer", loss_nan, raw)
    /\ pc' = (IF HasPatchCritic(trainer) THEN "patch_d_reg" ELSE "ada")
    /\ UNCHANGED <<stepVars, frameVars, createVars, patchVars, emaVars, adaVars, trainer, config, R, ema, global_step, iterations, firedAt>>

skip_d_regularizer ==
    /\ pc = "d_reg"
    /\ ~CadenceFires(global_step, config.lazy_gradient_penalty_interval)
    /\ gsRead' = Append(gsRead, global_step)
    /\ pc' = "ada"
    /\ UNCHANGED <<stepVars, frameVars, createVars, patchVars, emaVars, adaVars, trainer, config, R, ema, global_step, trace, optCount, last,
                   iterations, firedAt>>

\* second call inside the same `if` of training_step (patch trainer only)
patch_d_regularizer ==
    /\ pc = "patch_d_reg"
    /\ \/ Raised("patch_d_regularizer")
       \/ /\ \E loss_nan \in BOOLEAN :
                \E raw \in RawGrads(trainer, config, "patch_d_regularizer", loss_nan) :
                    Stepped("patch_d_regularizer", loss_nan, raw)
          /\ pc' = "ada"
    /\ UNCHANGED <<stepVars, frameVars, createVars, patchVars, emaVars, adaVars, trainer, config, R, ema, global_step, gsRead, iterations, firedAt>>

\* a plausible slip: the controller update made to depend on the critic's loss
execute_ada_heuristics_unless_nan ==
    /\ pc = "ada"
    /\ gsRead' = Append(gsRead, global_step)
    /\ trace' = (IF CadenceFires(global_step, config.ada_interval) /\ ~last.loss_nan
                 THEN Append(trace, "heuristic_update")
                 ELSE trace)
    /\ pc' = "returned"
    /\ last' = NoLast
    /\ UNCHANGED <<stepVars, frameVars, createVars, patchVars, emaVars, adaVars, trainer, config, R, ema, global_step, optCount,
                   iterations, firedAt>>

\* a plausible slip: the trainer moves p itself by the adjustment step
execute_ada_heuristics_moves_p ==
    /\ pc = "ada"
    /\ gsRead' = Append(gsRead, global_step)
    /\ trace' = (IF CadenceFires(global_step, config.ada_interval)
                 THEN Append(trace, "heuristic_update")
                 ELSE trace)
    /\ augment_pipe' = (IF CadenceFires(global_step, config.ada_interval) /\ ~augment_pipe.fixed
                         THEN [heuristic_update(augment_pipe) EXCEPT
                                  !.p = augment_pipe.p + augment_pipe.adjust]
                         ELSE augment_pipe)
    /\ pc' = "returned"
    /\ last' = NoLast
    /\ UNCHANGED <<stepVars, frameVars, createVars, patchVars, emaVars, trainer, config, R, ema, global_step, optCount,
                   iterations, firedAt>>

\* execute_ada_heuristics: the controller update on its cadence, then the log
\* of augment_pipe.p as aug_p, after which training_step returns
execute_ada_heuristics ==
    /\ pc = "ada"
    /\ gsRead' = Append(gsRead, global_step)
    /\ trace' = (IF CadenceFires(global_step, config.ada_interval)
                 THEN Append(trace, "heuristic_update")
                 ELSE trace)
    /\ augment_pipe' = (IF CadenceFires(global_step, config.ada_interval)
                         THEN heuristic_update(augment_pipe)
                         ELSE augment_pipe)
    /\ pc' = "returned"
    /\ last' = NoLast
    /\ UNCHANGED <<stepVars, frameVars, createVars, patchVars, emaVars, trainer, config, R, ema, global_step, optCount,
                   iterations, firedAt>>

\* the training loop advances the step counter once training_step has returned
advance_global_step ==
    /\ pc = "returned"
    /\ global_step' = global_step + 1
    /\ pc' = "idle"
    /\ UNCHANGED <<stepVars, frameVars, createVars, patchVars, emaVars, adaVars, trainer, config, R, ema, trace, optCount, last, gsRead,
                   iterations, firedAt>>

Next ==
    \/ on_train_start
    \/ training_step
    \/ g_step
    \/ g_regularizer
    \/ skip_g_regularizer
    \/ ema_update
    \/ d_step
    \/ patch_d_step
    \/ d_regularizer
    \/ skip_d_regularizer
    \/ patch_d_regularizer
    \/ execute_ada_heuristics
    \/ advance_global_step

Spec ==
    Init /\ [][Next]_vars

\* the same iterations with the controller in either mode and any start
\* value; the configuration fields the controller does not see are held at
\* one value
AdaConfigs(t) ==
    [lazy_path_penalty_interval : {MaxPlpInterval},
     lazy_path_penalty_after : {0},
     lazy_gradient_penalty_interval : {MaxGpInterval},
     ada_interval : 1..MaxAdaInterval,
     optimize_lights : {FALSE},
     optimize_shininess : {FALSE},
     ada_fixed : BOOLEAN,
     ada_start_p : 0..PScale]

InitAda ==
    /\ trainer \in Trainers
    /\ config \in AdaConfigs(trainer)
    /\ R = "None"
    /\ ema = "None"
    /\ global_step = 0
    /\ pc = "constructed"
    /\ trace = <<>>
    /\ optCount = ZeroCount
    /\ last = NoLast
    /\ gsRead = <<>>
    /\ iterations = 0
    /\ firedAt = {}
    /\ IdleStep
    /\ IdleFrame
    /\ IdlePatch
    /\ IdleEma
    /\ IdleCreate
    /\ augment_pipe = AugmentPipe(config)

SpecAda ==
    InitAda /\ [][Next]_vars

----------------------------------------------------------------------------
(* step(opt, module) on its own: every gradient tensor up to MaxEntries     *)
(* entries for a module with two parameters                                 *)

MaxEntries ==
    2

\* entries a gradient tensor is filled from; 200000 and -200000 are finite
\* values beyond the bounds nan_to_num substitutes for the infinities
StepEntries ==
    {NaN, PosInf, NegInf, Fin(200000), Fin(-200000), Fin(3)}

RECURSIVE Tensors(_)
Tensors(n) ==
    IF n = 0
    THEN {<<>>}
    ELSE LET shorter == Tensors(n - 1)
         IN  shorter \cup {Append(t, e) : t \in {u \in shorter : Len(u) = n - 1},
                                           e \in StepEntries}

\* module.parameters()
StepParams ==
    {"weight", "bias"}

ParamGrads ==
    {NoGrad} \cup {Grad(t) : t \in Tensors(MaxEntries) \ {<<>>}}

IdleTrainer ==
    /\ trainer = "none"
    /\ config = <<>>
    /\ R = "None"
    /\ ema = "None"
    /\ global_step = 0
    /\ pc = "unused"
    /\ trace = <<>>
    /\ optCount = ZeroCount
    /\ last = NoLast
    /\ gsRead = <<>>
    /\ iterations = 0
    /\ firedAt = {}

InitStep ==
    /\ IdleTrainer
    /\ IdlePatch
    /\ IdleEma
    /\ IdleAda
    /\ IdleCreate
    /\ IdleFrame
    /\ stepIn \in [StepParams -> ParamGrads]
    /\ stepOut = [done |-> FALSE]

\* one call step(opt, module) on the gradients stepIn
step_call ==
    /\ ~stepOut.done
    /\ LET r == step([module |-> stepIn], "module")
       IN  stepOut' = [done |-> TRUE, grads |-> r.grads.module, opt_steps |-> r.opt_steps]
    /\ UNCHANGED <<stepIn, trainerVars, patchVars, emaVars, adaVars, frameVars, createVars>>

NextStep ==
    step_call

SpecStep ==
    InitStep /\ [][NextStep]_vars

----------------------------------------------------------------------------
(* extract_patches_from_tensor(t_image, mask, patches_per_view, patch_size) *)
(* A pixel is <<y, x>>; a mask is the set of its pixels with value > 0.     *)

ImgH ==
    7

ImgW ==
    8

MaxCount ==
    2

MaxPatchSize ==
    3

BatchSizes ==
    {1, 2}

\* patch_size 1 takes the same path as every odd size and multiplies the
\* candidate centers by six; the sizes modelled start at 2
PatchSizes ==
    2..MaxPatchSize

Rect(y0, y1, x0, x1) ==
    {<<y, x>> : y \in y0..y1, x \in x0..x1}

Frame(y0, y1, x0, x1) ==
    {p \in Rect(y0, y1, x0, x1) : p[1] \in {y0, y1} \/ p[2] \in {x0, x1}}

Holed(y0, y1, x0, x1) ==
    Rect(y0, y1, x0, x1) \ {<<(y0 + y1) \div 2, (x0 + x1) \div 2>>}

Corners(y0, y1, x0, x1) ==
    {<<y0, x0>>, <<y1, x1>>}

\* masks of the first image of a batch
Masks ==
    {{}} \cup
    UNION {{Rect(y0, y1, x0, x1), Frame(y0, y1, x0, x1),
            Holed(y0, y1, x0, x1), Corners(y0, y1, x0, x1)} :
           y0 \in {0, 1}, y1 \in {2, ImgH - 2, ImgH - 1},
           x0 \in {0, 1}, x1 \in {2, ImgW - 2, ImgW - 1}}

\* masks of the further images of a batch
MoreMasks ==
    {{}, Rect(0, ImgH - 1, 0, ImgW - 1), Holed(0, ImgH - 1, 1, ImgW - 1), Rect(1, 2, 1, 2)}

Batches ==
    UNION {{b \in [1..n -> Masks \cup MoreMasks] :
               /\ b[1] \in Masks
               /\ \A i \in 2..n : b[i] \in MoreMasks} : n \in BatchSizes}

SetMin(S) ==
    CHOOSE v \in S : \A w \in S : v <= w

SetMax(S) ==
    CHOOSE v \in S : \A w \in S : v >= w

\* lines 356-357: bounding box of the positive pixels
y_min(m) ==
    SetMin({p[1] : p \in m})

y_max(m) ==
    SetMax({p[1] : p \in m})

x_min(m) ==
    SetMin({p[2] : p \in m})

x_max(m) ==
    SetMax({p[2] : p \in m})

\* a plausible slip: the margin test dropped, every positive pixel is a candidate
nz_mask_no_margin(m, ps) ==
    m

\* a plausible slip: the four comparisons not strict
nz_mask_non_strict(m, ps) ==
    LET y_lo == y_min(m) + ps \div 2 + 1
        y_hi == y_max(m) - ps \div 2 - 1
        x_lo == x_min(m) + ps \div 2 + 1
        x_hi == x_max(m) - ps \div 2 - 1
    IN  {p \in m : p[1] >= y_lo /\ p[1] <= y_hi /\ p[2] >= x_lo /\ p[2] <= x_hi}

\* lines 358-362: the positive pixels kept as candidate centers
nz_mask(m, ps) ==
    LET y_lo == y_min(m) + ps \div 2 + 1
        y_hi == y_max(m) - ps \div 2 - 1
        x_lo == x_min(m) + ps \div 2 + 1
        x_hi == x_max(m) - ps \div 2 - 1
    IN  {p \in m : p[1] > y_lo /\ p[1] < y_hi /\ p[2] > x_lo /\ p[2] < x_hi}

\* a plausible slip: random.choices, which draws with replacement
random_sample_with_replacement(S, k) ==
    [1..k -> S]

\* random.sample(population, k) for k <= len(population): k distinct members,
\* in any order
random_sample(S, k) ==
    {q \in [1..k -> S] : \A i, j \in 1..k : i # j => q[i] # q[j]}

\* rows (or columns) selected by the Python slice lo:hi on an axis of length n
Slice(lo, hi, n) ==
    LET norm(i) == IF i < 0 THEN (IF i + n < 0 THEN 0 ELSE i + n)
                   ELSE (IF i > n THEN n ELSE i)
    IN  {r \in 0..(n - 1) : norm(lo) <= r /\ r < norm(hi)}

\* lines 367-370: the crop of the image and of the mask around center c
crop(image, c, ps) ==
    LET y_low == c[1] - ps \div 2
        y_high == c[1] + ps \div 2
        x_low == c[2] - ps \div 2
        x_high == c[2] + ps \div 2
    IN  [image |-> image, center |-> c,
         rows |-> Slice(y_low, y_high, ImgH), cols |-> Slice(x_low, x_high, ImgW),
         mask_rows |-> Slice(y_low, y_high, ImgH), mask_cols |-> Slice(x_low, x_high, ImgW)]

\* lines 373-374: torch.cat needs equal shapes, reshape needs the element count
\* of (batch, patches_per_view, channels, patch_size, patch_size)
reshape_ok(ps_list, batch, ppv, ps) ==
    /\ Len(ps_list) > 0
    /\ \A i, j \in DOMAIN ps_list :
          /\ Cardinality(ps_list[i].rows) = Cardinality(ps_list[j].rows)
          /\ Cardinality(ps_list[i].cols) = Cardinality(ps_list[j].cols)
    /\ Len(ps_list) * Cardinality(ps_list[1].rows) * Cardinality(ps_list[1].cols)
         = batch * ppv * ps * ps

InitPatch ==
    /\ IdleTrainer
    /\ IdleStep
    /\ IdleFrame
    /\ IdleEma
    /\ IdleAda
    /\ IdleCreate
    /\ t_mask \in Batches
    /\ patches_per_view \in 1..MaxCount
    /\ patch_size \in PatchSizes
    /\ idx = 1
    /\ patches = <<>>
    /\ outcome = "running"

\* a plausible slip: with too few candidates the sampler takes the ones there are
extract_image_takes_fewer ==
    /\ outcome = "running"
    /\ idx <= Len(t_mask)
    /\ LET m == t_mask[idx]
           cands == IF m = {} THEN {} ELSE nz_mask(m, patch_size)
           k == IF patches_per_view > Cardinality(cands)
                THEN Cardinality(cands) ELSE patches_per_view
       IN  \E q \in random_sample(cands, k) :
              /\ patches' = patches \o [p \in 1..k |-> crop(idx, q[p], patch_size)]
              /\ idx' = idx + 1
              /\ UNCHANGED outcome
    /\ UNCHANGED <<t_mask, patches_per_view, patch_size, trainerVars, stepVars, frameVars, createVars, emaVars, adaVars>>

\* one pass of the loop over the images of the batch (lines 354-372)
extract_image ==
    /\ outcome = "running"
    /\ idx <= Len(t_mask)
    /\ LET m == t_mask[idx]
       IN  IF m = {}
           THEN \* .min() of an empty tensor
                /\ outcome' = "RuntimeError_min"
                /\ UNCHANGED <<idx, patches>>
           ELSE LET cands == nz_mask(m, patch_size)
                IN  IF patches_per_view > Cardinality(cands)
                    THEN \* random.sample: sample larger than population
                         /\ outcome' = "ValueError_sample"
                         /\ UNCHANGED <<idx, patches>>
                    ELSE \E q \in random_sample(cands, patches_per_view) :
                            /\ patches' = patches \o
                                   [p \in 1..patches_per_view |-> crop(idx, q[p], patch_size)]
                            /\ idx' = idx + 1
                            /\ UNCHANGED outcome
    /\ UNCHANGED <<t_mask, patches_per_view, patch_size, trainerVars, stepVars, frameVars, createVars, emaVars, adaVars>>

\* lines 373-375: concatenate, reshape and return
extract_return ==
    /\ outcome = "running"
    /\ idx > Len(t_mask)
    /\ outcome' = (IF reshape_ok(patches, Len(t_mask), patches_per_view, patch_size)
                   THEN "returned"
                   ELSE "RuntimeError_reshape")
    /\ UNCHANGED <<t_mask, patches_per_view, patch_size, idx, patches,
                   trainerVars, stepVars, frameVars, createVars, emaVars, adaVars>>

NextPatch ==
    \/ extract_image
    \/ extract_return

SpecPatch ==
    InitPatch /\ [][NextPatch]_vars

----------------------------------------------------------------------------
(* The shadow parameters of the generator over a run of fit(): the start    *)
(* hooks, training iterations and validation_epoch_end.  A parameter value  *)
(* is the pair <<n, k>>, the rational n / DecayDen^k, so that the moving    *)
(* average is computed exactly.                                             *)

MaxEmaUpdates ==
    2

\* ExponentialMovingAverage(self.G.parameters(), 0.995): 0.995 = 199 / 200
DecayDen ==
    200

\* a plausible slip: a decay above one
DecayNum_above_one ==
    DecayDen + 1

DecayNum ==
    199

\* self.G.parameters()
GParams ==
    {"weight", "bias"}

\* integer values an optimizer step leaves in a generator parameter
LiveValues ==
    {0, 1}

RECURSIVE Pow(_)
Pow(k) ==
    IF k = 0 THEN 1 ELSE DecayDen * Pow(k - 1)

\* the same rational over the denominator DecayDen^k
Lift(a, k) ==
    <<a[1] * Pow(k - a[2]), k>>

Scale(a, b) ==
    IF a[2] >= b[2] THEN a[2] ELSE b[2]

FracEq(a, b) ==
    Lift(a, Scale(a, b))[1] = Lift(b, Scale(a, b))[1]

\* ema.update on one parameter: shadow + (1 - decay) * (live - shadow)
ema_update_value(shadow, live) ==
    LET k == Scale(shadow, live)
        sn == Lift(shadow, k)[1]
        ln == Lift(live, k)[1]
    IN  <<sn * DecayDen + (DecayDen - DecayNum) * (ln - sn), k + 1>>

\* ExponentialMovingAverage(parameters, decay): one shadow value per
\* trainable parameter, a copy of its live value
ExponentialMovingAverage(params, trainable) ==
    [p \in trainable |-> params[p]]

\* ema.store(parameters): the live values of the parameters handed over
ema_store(params) ==
    params

\* ema.copy_to(targets): the targets take their shadow values
ema_copy_to(params, shadow, targets) ==
    [p \in DOMAIN params |-> IF p \in targets THEN shadow[p] ELSE params[p]]

\* ema.restore(targets): the targets take back the values store() put aside
ema_restore(params, collected, targets) ==
    [p \in DOMAIN params |-> IF p \in targets THEN collected[p] ELSE params[p]]

\* torch.load(config.resume_ema): the shadow values of the saved snapshot
torch_load(cfg, trainable) ==
    [p \in trainable |-> <<cfg.snapshot, 0>>]

\* resume_ema is a field of the sparse trainer's config only
EmaConfigs(t) ==
    [resume_ema : IF t = "sparse" THEN {"None", "ema.pth"} ELSE {"None"},
     snapshot : LiveValues]

InitEma ==
    /\ trainer \in Trainers
    /\ config \in {c \in EmaConfigs(trainer) : c.resume_ema = "None" => c.snapshot = 0}
    /\ R = "None"
    /\ ema = "None"
    /\ global_step = 0
    /\ pc = "fit"
    /\ trace = <<>>
    /\ optCount = ZeroCount
    /\ last = NoLast
    /\ gsRead = <<>>
    /\ iterations = 0
    /\ firedAt = {}
    /\ IdleStep
    /\ IdleFrame
    /\ IdlePatch
    /\ IdleAda
    /\ IdleCreate
    /\ requires_grad \in {{"weight", "bias"}, {"weight"}}
    /\ G_params \in [GParams -> {<<v, 0>> : v \in LiveValues}]
    /\ shadow_params = <<>>
    /\ collected_params = <<>>
    /\ at_store = [live |-> <<>>, shadow |-> <<>>]

\* body shared by on_train_start and on_validation_start: the attributes are
\* created if still None; the sparse trainer then loads config.resume_ema
start_hook ==
    LET created == IF ema = "None"
                   THEN ExponentialMovingAverage(G_params, requires_grad)
                   ELSE shadow_params
    IN  /\ ema' = "ExponentialMovingAverage"
        /\ R' = (IF R = "None" THEN "Renderer" ELSE R)
        /\ shadow_params' = (IF trainer = "sparse" /\ config.resume_ema # "None"
                             THEN torch_load(config, requires_grad)
                             ELSE created)
        /\ collected_params' = (IF trainer = "sparse" /\ config.resume_ema # "None"
                                THEN <<>>
                                ELSE collected_params)

fit_on_train_start ==
    /\ pc = "fit"
    /\ start_hook
    /\ UNCHANGED <<trainer, config, global_step, pc, trace, optCount, last, gsRead,
                   iterations, firedAt, G_params, requires_grad, at_store,
                   stepVars, frameVars, createVars, patchVars, adaVars>>

fit_on_validation_start ==
    /\ pc = "fit"
    /\ start_hook
    /\ UNCHANGED <<trainer, config, global_step, pc, trace, optCount, last, gsRead,
                   iterations, firedAt, G_params, requires_grad, at_store,
                   stepVars, frameVars, createVars, patchVars, adaVars>>

\* one training iteration as the generator's parameters see it: the
\* optimizer steps of g_step and g_regularizer leave new values in the
\* trainable parameters, then self.ema.update(self.G.parameters())
fit_training_step ==
    /\ pc = "fit"
    /\ ema # "None"
    /\ global_step < MaxEmaUpdates
    /\ \E new \in [requires_grad -> LiveValues] :
          /\ G_params' = [p \in GParams |->
                            IF p \in requires_grad THEN <<new[p], 0>> ELSE G_params[p]]
          /\ shadow_params' = [p \in DOMAIN shadow_params |->
                                 ema_update_value(shadow_params[p], <<new[p], 0>>)]
    /\ global_step' = global_step + 1
    /\ iterations' = iterations + 1
    /\ UNCHANGED <<trainer, config, R, ema, pc, trace, optCount, last, gsRead, firedAt,
                   requires_grad, collected_params, at_store,
                   stepVars, frameVars, createVars, patchVars, adaVars>>

\* validation_epoch_end: self.ema.store(self.G.parameters())
validation_store ==
    /\ pc = "fit"
    /\ ema # "None"
    /\ collected_params' = ema_store(G_params)
    /\ at_store' = [live |-> G_params, shadow |-> shadow_params]
    /\ pc' = "stored"
    /\ UNCHANGED <<trainer, config, R, ema, global_step, trace, optCount, last, gsRead,
                   iterations, firedAt, G_params, requires_grad, shadow_params,
                   stepVars, frameVars, createVars, patchVars, adaVars>>

\* self.ema.copy_to([p for p in self.G.parameters() if p.requires_grad])
validation_copy_to ==
    /\ pc = "stored"
    /\ G_params' = ema_copy_to(G_params, shadow_params, requires_grad)
    /\ pc' = "copied"
    /\ UNCHANGED <<trainer, config, R, ema, global_step, trace, optCount, last, gsRead,
                   iterations, firedAt, requires_grad, shadow_params, collected_params,
                   at_store, stepVars, frameVars, createVars, patchVars, adaVars>>

\* the exports that run on the averaged weights (export_grid, export_mesh,
\* the export_samples loop); any of them may raise, and no try block encloses
\* them
validation_evaluate ==
    /\ pc = "copied"
    /\ pc' \in {"evaluated", "raised"}
    /\ UNCHANGED <<trainer, config, R, ema, global_step, trace, optCount, last, gsRead,
                   iterations, firedAt, emaVars, stepVars, frameVars, createVars, patchVars, adaVars>>

\* a plausible slip: the restore call left out
validation_restore_left_out ==
    /\ pc = "evaluated"
    /\ pc' = "restored"
    /\ UNCHANGED <<trainer, config, R, ema, global_step, trace, optCount, last, gsRead,
                   iterations, firedAt, emaVars, stepVars, frameVars, createVars, patchVars, adaVars>>

\* self.ema.restore([p for p in self.G.parameters() if p.requires_grad])
validation_restore ==
    /\ pc = "evaluated"
    /\ G_params' = ema_restore(G_params, collected_params, requires_grad)
    /\ pc' = "restored"
    /\ UNCHANGED <<trainer, config, R, ema, global_step, trace, optCount, last, gsRead,
                   iterations, firedAt, requires_grad, shadow_params, collected_params,
                   at_store, stepVars, frameVars, createVars, patchVars, adaVars>>

\* the metrics computed after the restore, and the return
validation_return ==
    /\ pc = "restored"
    /\ pc' = "fit"
    /\ UNCHANGED <<trainer, config, R, ema, global_step, trace, optCount, last, gsRead,
                   iterations, firedAt, emaVars, stepVars, frameVars, createVars, patchVars, adaVars>>

NextEma ==
    \/ fit_on_train_start
    \/ fit_on_validation_start
    \/ fit_training_step
    \/ validation_store
    \/ validation_copy_to
    \/ validation_evaluate
    \/ validation_restore
    \/ validation_return

SpecEma ==
    InitEma /\ [][NextEma]_vars

----------------------------------------------------------------------------
(* Construction and the cadence tests of training_step for any integer      *)
(* interval the configuration file may hold, positive or not.               *)

\* Python's a % n for a >= 0 and n # 0: the result takes the sign of n
PyMod(a, n) ==
    IF n > 0 THEN a % n ELSE -((-a) % (-n))

\* `(self.global_step + 1) % interval == 0` for any integer interval
cadence_test(gs, interval) ==
    IF interval = 0
    THEN "ZeroDivisionError"
    ELSE IF PyMod(gs + 1, interval) = 0 THEN "fires" ELSE "rests"

\* the generator test: `and` evaluates the modulo only past the warm-up
g_cadence_test(t, gs, cfg) ==
    IF CallsGRegularizer(t) /\ gs > cfg.lazy_path_penalty_after
    THEN cadence_test(gs, cfg.lazy_path_penalty_interval)
    ELSE "rests"

AnyConfigs(t) ==
    [lazy_path_penalty_interval : -1..MaxPlpInterval,
     lazy_path_penalty_after : 0..MaxAfter,
     lazy_gradient_penalty_interval : -1..MaxGpInterval,
     ada_interval : 1..MaxAdaInterval,
     optimize_lights : {FALSE},
     optimize_shininess : {FALSE},
     ada_fixed : {TRUE},
     ada_start_p : {0}]

\* a configuration has been read, no trainer is constructed yet
InitCadence ==
    /\ trainer \in Trainers
    /\ config \in AnyConfigs(trainer)
    /\ R = "None"
    /\ ema = "None"
    /\ global_step = 0
    /\ pc = "config"
    /\ trace = <<>>
    /\ optCount = ZeroCount
    /\ last = NoLast
    /\ gsRead = <<>>
    /\ iterations = 0
    /\ firedAt = {}
    /\ IdleStep
    /\ IdleFrame
    /\ IdlePatch
    /\ IdleEma
    /\ IdleAda
    /\ IdleCreate

\* StyleGAN2Trainer(config): __init__ stores the config and builds the
\* networks; no field of the config is tested
construct ==
    /\ pc = "config"
    /\ pc' = "constructed"
    /\ augment_pipe' = AugmentPipe(config)
    /\ UNCHANGED <<trainer, config, R, ema, global_step, trace, optCount, last, gsRead,
                   iterations, firedAt, stepVars, frameVars, createVars, patchVars, emaVars>>

\* on_train_start, then training_step after training_step: which cadence
\* tests the call evaluates and what they give
cadence_training_step ==
    /\ pc \in {"constructed", "idle"}
    /\ global_step < MaxSteps
    /\ R' = "Renderer"
    /\ ema' = "ExponentialMovingAverage"
    /\ iterations' = iterations + 1
    /\ LET g == g_cadence_test(trainer, global_step, config)
           d == cadence_test(global_step, config.lazy_gradient_penalty_interval)
           a == cadence_test(global_step, config.ada_interval)
           gpart == <<"g_step">>
                    \o (IF g = "fires" THEN <<"g_regularizer">> ELSE <<>>)
           dpart == <<"ema_update", "d_step">>
                    \o (IF HasPatchCritic(trainer) THEN <<"patch_d_step">> ELSE <<>>)
                    \o (IF d = "fires"
                        THEN (IF HasPatchCritic(trainer)
                              THEN <<"d_regularizer", "patch_d_regularizer">>
                              ELSE <<"d_regularizer">>)
                        ELSE <<>>)
           apart == IF a = "fires" THEN <<"heuristic_update">> ELSE <<>>
       IN  IF g = "ZeroDivisionError"
           THEN /\ trace' = <<"g_step", "ZeroDivisionError">>
                /\ pc' = "raised"
           ELSE IF d = "ZeroDivisionError"
           THEN /\ trace' = gpart \o <<"ema_update", "d_step">>
                               \o (IF HasPatchCritic(trainer) THEN <<"patch_d_step">> ELSE <<>>)
                               \o <<"ZeroDivisionError">>
                /\ pc' = "raised"
           ELSE /\ trace' = gpart \o dpart \o apart
                /\ pc' = "returned"
    /\ UNCHANGED <<trainer, config, global_step, optCount, last, gsRead, firedAt,
                   stepVars, frameVars, createVars, patchVars, emaVars, adaVars>>

\* the training loop advances the step counter
cadence_advance ==
    /\ pc = "returned"
    /\ global_step' = global_step + 1
    /\ pc' = "idle"
    /\ UNCHANGED <<trainer, config, R, ema, trace, optCount, last, gsRead, iterations,
                   firedAt, stepVars, frameVars, createVars, patchVars, emaVars, adaVars>>

NextCadence ==
    \/ construct
    \/ cadence_training_step
    \/ cadence_advance

SpecCadence ==
    InitCadence /\ [][NextCadence]_vars

----------------------------------------------------------------------------
(* The loss each regularizer back-propagates.  Weights and penalties are    *)
(* whole numbers of one unit each; `last` holds the latest loss computed.   *)

MaxLambda ==
    2

MaxPenalty ==
    2

LossConfigs(t) ==
    [lambda_gp : 1..MaxLambda,
     lambda_plp : 1..MaxLambda,
     lazy_path_penalty_interval : 1..MaxPlpInterval,
     lazy_gradient_penalty_interval : 1..MaxGpInterval]

\* values of compute_gradient_penalty and path_length_penalty
Penalties ==
    0..MaxPenalty

\* a plausible slip: the generator's interval in the critic's regularizer
disc_loss_with_path_interval(cfg, gp) ==
    cfg.lambda_gp * gp * cfg.lazy_path_penalty_interval

\* d_regularizer: disc_loss
disc_loss(cfg, gp) ==
    cfg.lambda_gp * gp * cfg.lazy_gradient_penalty_interval

\* patch_d_regularizer: disc_loss
patch_disc_loss(cfg, gp) ==
    cfg.lambda_gp * gp * cfg.lazy_gradient_penalty_interval

\* g_regularizer: gen_loss
gen_loss(cfg, plp) ==
    cfg.lambda_plp * plp * cfg.lazy_path_penalty_interval

InitLoss ==
    /\ trainer \in Trainers
    /\ config \in LossConfigs(trainer)
    /\ pc = "loss"
    /\ last = [substep |-> "none", penalty |-> 0, backward |-> FALSE, loss |-> 0]
    /\ R = "None"
    /\ ema = "None"
    /\ global_step = 0
    /\ trace = <<>>
    /\ optCount = ZeroCount
    /\ gsRead = <<>>
    /\ iterations = 0
    /\ firedAt = {}
    /\ IdleStep
    /\ IdleFrame
    /\ IdlePatch
    /\ IdleEma
    /\ IdleAda
    /\ IdleCreate

\* g_regularizer up to manual_backward: a NaN penalty back-propagates nothing
g_regularizer_loss ==
    /\ pc = "loss"
    /\ \/ last' = [substep |-> "g_regularizer", penalty |-> 0, backward |-> FALSE, loss |-> 0]
       \/ \E plp \in Penalties :
              last' = [substep |-> "g_regularizer", penalty |-> plp, backward |-> TRUE,
                       loss |-> gen_loss(config, plp)]
    /\ UNCHANGED <<trainer, config, R, ema, global_step, pc, trace, optCount, gsRead,
                   iterations, firedAt, stepVars, frameVars, createVars, patchVars, emaVars, adaVars>>

\* d_regularizer up to manual_backward
d_regularizer_loss ==
    /\ pc = "loss"
    /\ \E gp \in Penalties :
          last' = [substep |-> "d_regularizer", penalty |-> gp, backward |-> TRUE,
                   loss |-> disc_loss(config, gp)]
    /\ UNCHANGED <<trainer, config, R, ema, global_step, pc, trace, optCount, gsRead,
                   iterations, firedAt, stepVars, frameVars, createVars, patchVars, emaVars, adaVars>>

\* patch_d_regularizer up to manual_backward
patch_d_regularizer_loss ==
    /\ pc = "loss"
    /\ HasPatchCritic(trainer)
    /\ \E gp \in Penalties :
          last' = [substep |-> "patch_d_regularizer", penalty |-> gp, backward |-> TRUE,
                   loss |-> patch_disc_loss(config, gp)]
    /\ UNCHANGED <<trainer, config, R, ema, global_step, pc, trace, optCount, gsRead,
                   iterations, firedAt, stepVars, frameVars, createVars, patchVars, emaVars, adaVars>>

NextLoss ==
    \/ g_regularizer_loss
    \/ d_regularizer_loss
    \/ patch_d_regularizer_loss

SpecLoss ==
    InitLoss /\ [][NextLoss]_vars

----------------------------------------------------------------------------
(* The parameters each sub-step changes.  param_version counts the updates  *)
(* applied to the parameters of each module and to the shadow set;          *)
(* param_grad is the set of modules whose parameters hold a gradient.  The  *)
(* sub-steps run in any order, pc names the latest one.                     *)

MaxVersion ==
    2

\* the modules of the trainer that hold trainable parameters
ModulesOf(t, cfg) ==
    GOptModules(t, cfg) \cup {"D"} \cup (IF HasPatchCritic(t) THEN {"patch_D"} ELSE {})

FrameConfigs(t) ==
    [optimize_lights : IF t = "light" THEN BOOLEAN ELSE {FALSE},
     optimize_shininess : IF t = "light" THEN BOOLEAN ELSE {FALSE}]

\* opt.zero_grad(set_to_none=True): the gradients of the optimizer's own
\* parameters are dropped
zero_grad(grads, owned) ==
    grads \ owned

\* a plausible slip: one optimizer over the parameters of every module
optimizer_step_over_all_modules(versions, grads, owned) ==
    [m \in DOMAIN versions |->
        IF m \in grads THEN versions[m] + 1 ELSE versions[m]]

\* opt.step(): every parameter of the optimizer's groups that holds a gradient
\* is updated, the others are passed over
optimizer_step(versions, grads, owned) ==
    [m \in DOMAIN versions |->
        IF m \in owned /\ m \in grads THEN versions[m] + 1 ELSE versions[m]]

InitFrame ==
    /\ trainer \in Trainers
    /\ config \in FrameConfigs(trainer)
    /\ pc = "constructed"
    /\ param_version = [m \in ModulesOf(trainer, config) \cup {"shadow"} |-> 0]
    /\ param_grad = {}
    /\ R = "None"
    /\ ema = "None"
    /\ global_step = 0
    /\ trace = <<>>
    /\ optCount = ZeroCount
    /\ last = NoLast
    /\ gsRead = <<>>
    /\ iterations = 0
    /\ firedAt = {}
    /\ IdleStep
    /\ IdlePatch
    /\ IdleEma
    /\ IdleAda
    /\ IdleCreate

\* a loss sub-step: zero_grad on its optimizer, the backward passes, which
\* leave a gradient in the stepped module and in any other module the loss
\* reaches, then (unless the sub-step returns before it) the optimizer step
FrameSubStep(sub, steps) ==
    LET owned == OptModules(trainer, config, sub)
        zeroed == zero_grad(param_grad, owned)
    IN  /\ \A m \in owned : param_version[m] < MaxVersion
        /\ \E reached \in SUBSET ModulesOf(trainer, config) :
              /\ SteppedModule(sub) \in reached
              /\ \A m \in reached : Participates(sub, m)
              /\ param_grad' = zeroed \cup reached
              /\ param_version' = (IF steps
                                    THEN optimizer_step(param_version, zeroed \cup reached, owned)
                                    ELSE param_version)
        /\ pc' = sub
        /\ UNCHANGED <<trainer, config, R, ema, global_step, trace, optCount, last, gsRead,
                       iterations, firedAt, stepVars, patchVars, emaVars, adaVars, createVars>>

frame_g_step ==
    FrameSubStep("g_step", TRUE)

\* with a NaN penalty neither manual_backward nor step is reached
frame_g_regularizer ==
    \/ FrameSubStep("g_regularizer", TRUE)
    \/ /\ param_grad' = zero_grad(param_grad, OptModules(trainer, config, "g_regularizer"))
       /\ pc' = "g_regularizer"
       /\ UNCHANGED <<param_version, trainer, config, R, ema, global_step, trace, optCount,
                      last, gsRead, iterations, firedAt, stepVars, patchVars, emaVars, adaVars, createVars>>

\* self.ema.update(self.G.parameters()): the shadow values move, nothing else
frame_ema_update ==
    /\ param_version["shadow"] < MaxVersion
    /\ param_version' = [param_version EXCEPT !["shadow"] = @ + 1]
    /\ pc' = "ema_update"
    /\ UNCHANGED <<param_grad, trainer, config, R, ema, global_step, trace, optCount, last,
                   gsRead, iterations, firedAt, stepVars, patchVars, emaVars, adaVars, createVars>>

frame_d_step ==
    FrameSubStep("d_step", TRUE)

frame_patch_d_step ==
    /\ HasPatchCritic(trainer)
    /\ FrameSubStep("patch_d_step", TRUE)

frame_d_regularizer ==
    FrameSubStep("d_regularizer", TRUE)

frame_patch_d_regularizer ==
    /\ HasPatchCritic(trainer)
    /\ FrameSubStep("patch_d_regularizer", TRUE)

NextFrame ==
    \/ frame_g_step
    \/ frame_g_regularizer
    \/ frame_ema_update
    \/ frame_d_step
    \/ frame_patch_d_step
    \/ frame_d_regularizer
    \/ frame_patch_d_regularizer

SpecFrame ==
    InitFrame /\ [][NextFrame]_vars

----------------------------------------------------------------------------
(* The lifecycle hooks in any order the training loop may call them: trace  *)
(* is the sequence of hooks called so far, pc becomes "AttributeError"      *)
(* when a hook uses an attribute that is still None.                        *)

MaxHooks ==
    5

\* on_train_start has been called
TrainStarted ==
    \E i \in DOMAIN trace : trace[i] = "on_train_start"

\* on_validation_start has been called since the latest validation_epoch_end
ValidationStarted ==
    \E i \in DOMAIN trace :
        /\ trace[i] = "on_validation_start"
        /\ \A j \in DOMAIN trace : j > i => trace[j] # "validation_epoch_end"

InitHooks ==
    /\ trainer \in Trainers
    /\ config \in {c \in EmaConfigs(trainer) : c.snapshot = 0}
    /\ R = "None"
    /\ ema = "None"
    /\ pc = "fit"
    /\ trace = <<>>
    /\ global_step = 0
    /\ optCount = ZeroCount
    /\ last = NoLast
    /\ gsRead = <<>>
    /\ iterations = 0
    /\ firedAt = {}
    /\ IdleStep
    /\ IdleFrame
    /\ IdlePatch
    /\ IdleEma
    /\ IdleAda
    /\ IdleCreate

\* the attributes after the body shared by the two start hooks
HookCreates(name) ==
    /\ pc = "fit"
    /\ Len(trace) < MaxHooks
    /\ ema' = (IF trainer = "sparse" /\ config.resume_ema # "None"
               THEN "torch.load"
               ELSE IF ema = "None" THEN "ExponentialMovingAverage" ELSE ema)
    /\ R' = (IF R = "None" THEN "Renderer" ELSE R)
    /\ trace' = Append(trace, name)
    /\ UNCHANGED <<trainer, config, global_step, pc, optCount, last, gsRead, iterations,
                   firedAt, stepVars, frameVars, createVars, patchVars, emaVars, adaVars>>

\* a hook that reads self.ema and self.R
HookUses(name) ==
    /\ pc = "fit"
    /\ Len(trace) < MaxHooks
    /\ pc' = (IF ema = "None" \/ R = "None" THEN "AttributeError" ELSE pc)
    /\ trace' = Append(trace, name)
    /\ UNCHANGED <<trainer, config, R, ema, global_step, optCount, last, gsRead, iterations,
                   firedAt, stepVars, frameVars, createVars, patchVars, emaVars, adaVars>>

hook_on_train_start ==
    HookCreates("on_train_start")

\* a plausible slip: the attributes created in on_train_start only
hook_on_validation_start_creates_nothing ==
    /\ pc = "fit"
    /\ Len(trace) < MaxHooks
    /\ trace' = Append(trace, "on_validation_start")
    /\ UNCHANGED <<trainer, config, R, ema, global_step, pc, optCount, last, gsRead,
                   iterations, firedAt, stepVars, frameVars, createVars, patchVars, emaVars, adaVars>>

hook_on_validation_start ==
    HookCreates("on_validation_start")

\* training_step: self.render (self.R.render) in g_step, then self.ema.update
hook_training_step ==
    /\ TrainStarted
    /\ HookUses("training_step")

\* validation_epoch_end: export_grid (self.render), self.ema.store
hook_validation_epoch_end ==
    /\ ValidationStarted
    /\ HookUses("validation_epoch_end")

NextHooks ==
    \/ hook_on_train_start
    \/ hook_on_validation_start
    \/ hook_training_step
    \/ hook_validation_epoch_end

SpecHooks ==
    InitHooks /\ [][NextHooks]_vars

----------------------------------------------------------------------------
(* The shape of the patch critic's input in the patch trainer.  A tensor is *)
(* Tensor(shape), its shape a sequence of dimensions; NoTensor stands for   *)
(* an input a sub-step does not build, RuntimeError for one whose           *)
(* construction raised.  `last` holds the inputs the latest sub-step built. *)

MaxBatch ==
    4

MaxViews ==
    2

ShapeConfigs ==
    [batch : 1..MaxBatch,
     views_per_sample : 1..MaxViews,
     num_patch_per_view : 1..MaxCount,
     patch_size : PatchSizes]

Tensor(shape) ==
    [kind |-> "tensor", shape |-> shape]

NoTensor ==
    [kind |-> "none", shape |-> <<>>]

RuntimeError ==
    [kind |-> "RuntimeError", shape |-> <<>>]

RECURSIVE Numel(_)
\* the number of elements of a tensor of the shape
Numel(shape) ==
    IF shape = <<>> THEN 1 ELSE shape[1] * Numel(Tail(shape))

\* tensor.reshape(n, -1, ps, ps): the second dimension is inferred, and the
\* call raises when the elements do not divide
reshape_infer(t, n, ps) ==
    IF t.kind # "tensor" \/ n * ps * ps = 0 \/ Numel(t.shape) % (n * ps * ps) # 0
    THEN RuntimeError
    ELSE Tensor(<<n, Numel(t.shape) \div (n * ps * ps), ps, ps>>)

\* extract_patches_from_tensor on `images` images with their masks, followed
\* by torch.cat([patches, masks], 2): each crop has 2 * (patch_size // 2) rows
\* and columns, and the sampler's own reshape raises when that is not
\* patch_size
extract_and_cat(images, ppv, ps) ==
    IF images * ppv * 3 * (2 * (ps \div 2)) * (2 * (ps \div 2)) = images * ppv * 3 * ps * ps
    THEN Tensor(<<images, ppv, 3 + 1, ps, ps>>)
    ELSE RuntimeError

\* len(range(0, n, stride))
RangeLen(n, stride) ==
    (n + stride - 1) \div stride

\* the patch critic's input built from the rendered views (g_step, patch_d_step)
fake_patch_input(cfg) ==
    reshape_infer(extract_and_cat(cfg.batch, cfg.num_patch_per_view, cfg.patch_size),
                  cfg.batch \div cfg.views_per_sample, cfg.patch_size)

\* the patch critic's input built from the first view of each real sample
\* (patch_d_step, patch_d_regularizer)
real_patch_input(cfg) ==
    reshape_infer(extract_and_cat(RangeLen(cfg.batch, cfg.views_per_sample),
                                  cfg.num_patch_per_view * cfg.views_per_sample,
                                  cfg.patch_size),
                  cfg.batch \div cfg.views_per_sample, cfg.patch_size)

\* a plausible slip: the views left out of the channel count
patch_D_channels_without_views(cfg) ==
    4 * cfg.num_patch_per_view

\* Discriminator(config.patch_size, 4 * views_per_sample * num_patch_per_view, ...)
patch_D_channels(cfg) ==
    4 * cfg.views_per_sample * cfg.num_patch_per_view

InitShape ==
    /\ trainer = "patch"
    /\ config \in ShapeConfigs
    /\ pc = "idle"
    /\ last = [substep |-> "none", fake |-> NoTensor, real |-> NoTensor,
               channels |-> patch_D_channels(config)]
    /\ R = "None"
    /\ ema = "None"
    /\ global_step = 0
    /\ trace = <<>>
    /\ optCount = ZeroCount
    /\ gsRead = <<>>
    /\ iterations = 0
    /\ firedAt = {}
    /\ IdleStep
    /\ IdleFrame
    /\ IdlePatch
    /\ IdleEma
    /\ IdleAda
    /\ IdleCreate

\* the inputs a sub-step hands to self.patch_D
ShapeSubStep(sub, fake, real) ==
    /\ pc = "idle"
    /\ last' = [last EXCEPT !.substep = sub, !.fake = fake, !.real = real]
    /\ pc' = sub
    /\ UNCHANGED <<trainer, config, R, ema, global_step, trace, optCount, gsRead,
                   iterations, firedAt, stepVars, frameVars, createVars, patchVars, emaVars, adaVars>>

shape_g_step ==
    ShapeSubStep("g_step", fake_patch_input(config), NoTensor)

\* the real input is built only if the fake one did not raise
shape_patch_d_step ==
    ShapeSubStep("patch_d_step", fake_patch_input(config),
                 IF fake_patch_input(config) = RuntimeError
                 THEN NoTensor ELSE real_patch_input(config))

shape_patch_d_regularizer ==
    ShapeSubStep("patch_d_regularizer", NoTensor, real_patch_input(config))

NextShape ==
    \/ shape_g_step
    \/ shape_patch_d_step
    \/ shape_patch_d_regularizer

SpecShape ==
    InitShape /\ [][NextShape]_vars

----------------------------------------------------------------------------
(* create_trainer(name, config) over the calls made in a process, which may *)
(* have inherited its environment from another.  A string is the sequence   *)
(* of its pieces between underscores, so '' is <<"">> and f"{a}_{b}" is     *)
(* a \o b; a path is the sequence of its components.  environ is <<>>       *)
(* while os.environ has no 'experiment' key and <<value>> once it has.  An  *)
(* interval is a whole number of steps of 1 / IntervalDen.  `last` holds    *)
(* what the latest call found on entry.                                     *)

MaxCalls ==
    2

MaxDepth ==
    3

MaxInterval ==
    5

MaxGpus ==
    3

IntervalDen ==
    2

EmptyStr ==
    <<"">>

NoResume ==
    [none |-> TRUE]

\* Path(config.resume), by its components
Paths ==
    UNION {[1..n -> {<<"runs">>, <<"exp">>}] : n \in 0..MaxDepth}

\* the name each training script passes to create_trainer
TrainerName(t) ==
    IF t = "sparse" THEN <<"StyleGAN23D-CompCars">> ELSE <<"StyleGAN23D">>

Clock ==
    {"06111200", "06111201"}

CreateConfigs ==
    [resume : {NoResume} \cup {[none |-> FALSE, parts |-> p] : p \in Paths},
     experiment : {<<"fast">>, EmptyStr},
     val_check_interval : 1..MaxInterval]

\* Path(p).parents: one entry per component, the last of them '.' or '/'
Parents(parts) ==
    [i \in 1..Len(parts) |-> SubSeq(parts, 1, Len(parts) - i)]

\* Path(p).name: the last component, '' for '.' and for '/'
PathName(parts) ==
    IF parts = <<>> THEN EmptyStr ELSE parts[Len(parts)]

generate_experiment_name(name, cfg, env, now) ==
    IF ~cfg.resume.none
    THEN LET parents == Parents(cfg.resume.parts)
         IN  IF Len(parents) < 2
             THEN [raised |-> "IndexError"]
             ELSE [raised |-> "None",
                   experiment |-> PathName(parents[2]),
                   environ |-> <<PathName(parents[2])>>]
    ELSE IF env = <<>> \/ env[1] = EmptyStr
         THEN [raised |-> "None",
               experiment |-> <<now>> \o name \o cfg.experiment,
               environ |-> <<(<<now>> \o name \o cfg.experiment)>>]
         ELSE [raised |-> "None", experiment |-> env[1], environ |-> env]

\* int(config.val_check_interval) when it is above 1
truncate_interval(v) ==
    IF v > IntervalDen THEN (v \div IntervalDen) * IntervalDen ELSE v

\* config.val_check_interval *= gpu_count when there are several devices
scale_interval(v, gpus) ==
    IF gpus > 1 THEN v * gpus ELSE v

\* min(config.val_check_interval, 1)
val_check_interval_arg(v) ==
    IF IntervalDen < v THEN IntervalDen ELSE v

\* max(1, config.val_check_interval)
check_val_every_n_epoch_arg(v) ==
    IF v > IntervalDen THEN v ELSE IntervalDen

InitCreate ==
    /\ trainer \in Trainers
    /\ config \in CreateConfigs
    /\ environ \in {<<>>, <<EmptyStr>>, <<(<<"06110900", "StyleGAN23D", "fast">>)>>}
    /\ gpu_count \in 0..MaxGpus
    /\ experiment = <<>>
    /\ trainer_kwargs = <<>>
    /\ calls = 0
    /\ pc = "idle"
    /\ R = "None"
    /\ ema = "None"
    /\ global_step = 0
    /\ trace = <<>>
    /\ optCount = ZeroCount
    /\ last = NoLast
    /\ gsRead = <<>>
    /\ iterations = 0
    /\ firedAt = {}
    /\ IdleStep
    /\ IdleFrame
    /\ IdlePatch
    /\ IdleEma
    /\ IdleAda

create_trainer ==
    /\ pc \in {"idle", "returned"}
    /\ calls < MaxCalls
    /\ calls' = calls + 1
    /\ last' = [resume |-> config.resume, environ |-> environ,
                val_check_interval |-> config.val_check_interval]
    /\ \E now \in Clock :
          LET r == generate_experiment_name(TrainerName(trainer), config, environ, now)
              v == scale_interval(truncate_interval(config.val_check_interval), gpu_count)
          IN  IF r.raised = "IndexError"
              THEN /\ pc' = "IndexError"
                   /\ UNCHANGED <<config, environ, experiment, trainer_kwargs>>
              ELSE /\ pc' = "returned"
                   /\ experiment' = r.experiment
                   /\ environ' = r.environ
                   /\ config' = [config EXCEPT !.experiment = r.experiment,
                                               !.val_check_interval = v]
                   /\ trainer_kwargs' =
                         [val_check_interval |-> val_check_interval_arg(v),
                          check_val_every_n_epoch |-> check_val_every_n_epoch_arg(v)]
    /\ UNCHANGED <<trainer, R, ema, global_step, trace, optCount, gsRead, iterations,
                   firedAt, gpu_count, stepVars, patchVars, emaVars, adaVars, frameVars>>

NextCreate ==
    create_trainer

SpecCreate ==
    InitCreate /\ [][NextCreate]_vars

----------------------------------------------------------------------------
(* Properties of the training iteration (specification Spec) *)

Range(q) ==
    {q[i] : i \in DOMAIN q}

IsPrefix(a, b) ==
    /\ Len(a) <= Len(b)
    /\ \A i \in DOMAIN a : a[i] = b[i]

\* pc values of an iteration in progress, the return included
InIteration ==
    {"g_step", "g_reg", "ema", "d_step", "patch_d_step", "d_reg", "patch_d_reg",
     "ada", "returned"}

\* pc values at which the generator-regularization test has been made
AfterGRegTest ==
    InIteration \ {"g_step", "g_reg"}

\* position of a sub-step in the order the contract prescribes
OrderOf(s) ==
    CASE s = "g_step" -> 1
      [] s = "g_regularizer" -> 2
      [] s = "ema_update" -> 3
      [] s = "d_step" -> 4
      [] s = "patch_d_step" -> 5
      [] s = "d_regularizer" -> 6
      [] s = "patch_d_regularizer" -> 7
      [] s = "heuristic_update" -> 8

\* C1: in every trainer the sub-steps of one iteration are invoked in the order
\* generator step, generator regularization, EMA update, critic step,
\* patch-critic step, critic regularization (main, then patch), augmentation
\* update, each at most once; the unconditional ones have all run when
\* training_step returns, the patch-critic ones run only where a patch critic
\* exists, and global_step is not incremented before the return.
C1_StrictOrder ==
    /\ \A i, j \in DOMAIN trace : i < j => OrderOf(trace[i]) < OrderOf(trace[j])
    /\ pc = "returned" =>
          /\ {"g_step", "ema_update", "d_step"} \subseteq Range(trace)
          /\ (trainer = "patch") <=> ("patch_d_step" \in Range(trace))
          /\ (trainer = "patch" /\ "d_regularizer" \in Range(trace))
                <=> ("patch_d_regularizer" \in Range(trace))
    /\ pc \in InIteration \cup {"raised"} => global_step + 1 = iterations

C1_Witness ==
    /\ pc = "returned"
    /\ trainer = "patch"
    /\ Len(trace) = 8

\* C2 as stated: in all four trainers the generator regularization is invoked
\* on an iteration iff global_step > W and (global_step + 1) mod N = 0, and
\* with N = 4, W = 0 it has been invoked exactly at 3 and 7 after 10 iterations.
C2_AllTrainers ==
    /\ pc \in AfterGRegTest =>
          (("g_regularizer" \in Range(trace)) <=>
             (/\ global_step > config.lazy_path_penalty_after
              /\ (global_step + 1) % config.lazy_path_penalty_interval = 0))
    /\ (/\ pc = "idle"
        /\ global_step = 10
        /\ config.lazy_path_penalty_interval = 4
        /\ config.lazy_path_penalty_after = 0) => firedAt = {3, 7}

\* C2 amended: the rule of C2 holds in train_stylegan, real_feature_light and
\* real_feature_patch; the real_car_sdfgrid_sparse trainer never invokes the
\* generator regularization.
C2_ThreeTrainers ==
    /\ (pc \in AfterGRegTest /\ trainer # "sparse") =>
          (("g_regularizer" \in Range(trace)) <=>
             (/\ global_step > config.lazy_path_penalty_after
              /\ (global_step + 1) % config.lazy_path_penalty_interval = 0))
    /\ (/\ pc = "idle"
        /\ trainer # "sparse"
        /\ global_step = 10
        /\ config.lazy_path_penalty_interval = 4
        /\ config.lazy_path_penalty_after = 0) => firedAt = {3, 7}
    /\ trainer = "sparse" => (firedAt = {} /\ "g_regularizer" \notin Range(trace))

C2_Witness ==
    /\ pc = "idle"
    /\ trainer = "light"
    /\ global_step = 10
    /\ config.lazy_path_penalty_interval = 4
    /\ config.lazy_path_penalty_after = 0
    /\ firedAt = {3, 7}

\* C3: global_step grows by exactly one per training iteration and is constant
\* inside one: between two iterations it equals the number of iterations run,
\* and every cadence test of an iteration reads the value the iteration
\* started with, whatever optimizer steps came before the test.
C3_GlobalStepStable ==
    /\ pc = "idle" => global_step = iterations
    /\ pc \in InIteration =>
          /\ global_step = iterations - 1
          /\ \A i \in DOMAIN gsRead : gsRead[i] = iterations - 1
    /\ pc = "returned" => Len(gsRead) = (IF trainer = "sparse" THEN 2 ELSE 3)

C3_Witness ==
    /\ pc = "returned"
    /\ global_step = 3
    /\ Len(gsRead) = 3
    /\ optCount["g_regularizer"] = 1
    /\ optCount["d_regularizer"] = 1
    /\ optCount["patch_d_regularizer"] = 1

\* the sub-steps the configuration prescribes for the iteration at step gs
ExpectedSubSteps(t, cfg, gs) ==
    <<"g_step">>
    \o (IF /\ t # "sparse"
           /\ gs > cfg.lazy_path_penalty_after
           /\ (gs + 1) % cfg.lazy_path_penalty_interval = 0
        THEN <<"g_regularizer">> ELSE <<>>)
    \o <<"ema_update", "d_step">>
    \o (IF t = "patch" THEN <<"patch_d_step">> ELSE <<>>)
    \o (IF (gs + 1) % cfg.lazy_gradient_penalty_interval = 0
        THEN (IF t = "patch" THEN <<"d_regularizer", "patch_d_regularizer">>
              ELSE <<"d_regularizer">>)
        ELSE <<>>)
    \o (IF (gs + 1) % cfg.ada_interval = 0 THEN <<"heuristic_update">> ELSE <<>>)

\* C4: the sequence of sub-steps an iteration invokes is a function of the
\* trainer's fixed configuration and global_step alone: whatever the losses
\* and gradients were, a returned iteration has invoked exactly the sequence
\* the configuration prescribes for its global_step, and an iteration in
\* progress a prefix of it.
C4_SubStepsFunctionOfStep ==
    /\ pc \in InIteration \cup {"raised"} =>
          IsPrefix(trace, ExpectedSubSteps(trainer, config, global_step))
    /\ pc = "returned" => trace = ExpectedSubSteps(trainer, config, global_step)

C4_Witness ==
    /\ pc = "ada"
    /\ last.substep = "d_regularizer"
    /\ last.loss_nan
    /\ CadenceFires(global_step, config.ada_interval)

Regularizers ==
    {"g_regularizer", "d_regularizer", "patch_d_regularizer"}

\* C5: a regularization sub-step whose loss is NaN performs no optimizer
\* update, and the iteration goes on.
C5_NaNRegularizerSkips ==
    (last.substep \in Regularizers /\ last.loss_nan) =>
        /\ last.opt_steps = 0
        /\ optCount[last.substep] = 0
        /\ pc # "raised"

AllFinite(grads) ==
    \A m \in DOMAIN grads :
        \A i \in DOMAIN grads[m] :
            grads[m][i].present =>
                \A j \in DOMAIN grads[m][i].g : IsFinite(grads[m][i].g[j])

\* C6: every optimizer step consumes only sanitized gradients: no parameter of
\* the optimizer (generator and encoder for the generator optimizer, the
\* critic for a critic optimizer) is updated from a NaN or infinite entry.
C6_OnlyFiniteGradientsConsumed ==
    last.opt_steps > 0 => AllFinite(last.used)

Adversarial ==
    {"g_step", "d_step", "patch_d_step"}

\* C8: each adversarial sub-step that runs performs exactly one optimizer
\* step, also when its loss is NaN or its gradients hold NaN or Inf, and a
\* returned iteration has stepped the generator and the critic (and the patch
\* critic where there is one) exactly once in their adversarial steps.
C8_AdversarialAlwaysSteps ==
    /\ (last.substep \in Adversarial /\ ~last.raised) =>
          (last.opt_steps = 1 /\ optCount[last.substep] = 1)
    /\ pc = "returned" =>
          /\ optCount["g_step"] = 1
          /\ optCount["d_step"] = 1
          /\ optCount["patch_d_step"] = (IF trainer = "patch" THEN 1 ELSE 0)

C8_Witness ==
    /\ last.substep = "patch_d_step"
    /\ last.loss_nan
    /\ last.opt_steps = 1
    /\ optCount["g_step"] = 1
    /\ optCount["d_step"] = 1

Occurrences(q, x) ==
    Cardinality({i \in DOMAIN q : q[i] = x})

GeneratorSubSteps ==
    {"g_step", "g_regularizer"}

\* C15: an iteration performs exactly one shadow-parameter update: none
\* before the generator's sub-steps are over, one from then on, placed after
\* the generator step and the generator regularization (run, skipped or
\* without optimizer update) and before every critic sub-step.
C15_OneEmaUpdate ==
    /\ pc \in {"g_step", "g_reg", "ema"} => Occurrences(trace, "ema_update") = 0
    /\ pc \in InIteration \ {"g_step", "g_reg", "ema"} =>
          Occurrences(trace, "ema_update") = 1
    /\ pc = "raised" => Occurrences(trace, "ema_update") <= 1
    /\ \A i, j \in DOMAIN trace :
          (i < j /\ trace[j] = "ema_update") => trace[i] \in GeneratorSubSteps
    /\ \A i, j \in DOMAIN trace :
          (i < j /\ trace[i] = "ema_update") => trace[j] \notin GeneratorSubSteps
    /\ "ema_update" \in Range(trace) => "g_step" \in Range(trace)

C15_Witness ==
    /\ pc = "returned"
    /\ trace[1] = "g_step"
    /\ trace[2] = "g_regularizer"
    /\ trace[3] = "ema_update"
    /\ trace[4] = "d_step"
    /\ optCount["g_regularizer"] = 0

\* C19: every non-fatal error leaves a record in its iteration: a
\* regularization sub-step skipped for a NaN penalty logs something, and a
\* sub-step in which sanitization replaced a gradient entry logs something
\* that the same sub-step without replacement would not.
C19_NonFatalErrorsRecorded ==
    /\ (last.substep = "g_regularizer" /\ last.loss_nan /\ last.opt_steps = 0) =>
          LogEntries(trainer, last.substep, last.loss_nan) # {}
    /\ (last.opt_steps > 0 /\ last.used # last.raw) =>
          LogEntries(trainer, last.substep, last.loss_nan)
             # LogEntries(trainer, last.substep, FALSE)

\* the critic-regularization test of the iteration has been made and
\* d_regularizer, where it ran, has ended
AfterDReg ==
    \/ pc \in {"patch_d_reg", "ada", "returned"}
    \/ pc = "raised" /\ last.substep = "patch_d_regularizer"

\* C23: critic regularization runs on exactly the iterations with
\* (global_step + 1) mod lazy_gradient_penalty_interval = 0, whatever the
\* warm-up threshold of the generator's regularizer; on such an iteration the
\* main critic's regularizer runs once and steps its optimizer once, then, in
\* the trainer with a patch critic, the patch critic's does the same.
C23_CriticRegularizationCadence ==
    LET fires == (global_step + 1) % config.lazy_gradient_penalty_interval = 0
        main == Occurrences(trace, "d_regularizer")
        patch == Occurrences(trace, "patch_d_regularizer")
    IN  /\ AfterDReg =>
              /\ main = (IF fires THEN 1 ELSE 0)
              /\ optCount["d_regularizer"] = main
        /\ pc \in {"ada", "returned"} =>
              /\ patch = (IF fires /\ HasPatchCritic(trainer) THEN 1 ELSE 0)
              /\ optCount["patch_d_regularizer"] = patch
        /\ pc \in InIteration \cup {"raised"} =>
              /\ main <= 1
              /\ patch <= main
              /\ \A i, j \in DOMAIN trace :
                    (trace[i] = "patch_d_regularizer" /\ trace[j] = "d_regularizer") => j < i

C23_Witness ==
    /\ pc = "returned"
    /\ HasPatchCritic(trainer)
    /\ global_step <= config.lazy_path_penalty_after
    /\ global_step > 0
    /\ Occurrences(trace, "d_regularizer") = 1
    /\ Occurrences(trace, "patch_d_regularizer") = 1
    /\ "g_regularizer" \notin Range(trace)

----------------------------------------------------------------------------
(* Properties of the augmentation controller (specification SpecAda) *)

\* C17: the augmentation probability, and so the value logged as aug_p when
\* an iteration returns, is within [0, 1] after any iterations and any signs.
C17_AugPWithinUnitInterval ==
    /\ augment_pipe.p >= 0
    /\ augment_pipe.p <= PScale

C17_Witness ==
    /\ pc = "returned"
    /\ "heuristic_update" \in Range(trace)
    /\ ~augment_pipe.fixed
    /\ config.ada_start_p = PScale - 1
    /\ augment_pipe.adjust = 2
    /\ augment_pipe.p = PScale
    /\ global_step = 1

\* the sub-steps that evaluate a critic on real samples
EvaluatesRealSamples ==
    {"d_step", "patch_d_step", "d_regularizer", "patch_d_regularizer"}

\* a step in which the sub-step sub ran to its end
Ran(sub) ==
    /\ trace' = Append(trace, sub)
    /\ ~last'.raised

Recorded ==
    /\ augment_pipe'.n = augment_pipe.n + 1
    /\ augment_pipe'.acc - augment_pipe.acc \in Signs
    /\ augment_pipe'.p = augment_pipe.p

\* C20 as stated: in adaptive mode every sub-step that evaluates a critic on
\* real samples (critic step, critic regularization, patch-critic steps)
\* records the sign of the output in the accumulator.
C20_EveryRealEvaluationRecorded ==
    [][\A sub \in EvaluatesRealSamples :
          (~augment_pipe.fixed /\ Ran(sub)) => Recorded]_vars

\* C20 amended: in adaptive mode the critic's adversarial step records the
\* sign of the critic's output on the real samples; the critic regularization
\* and the patch-critic sub-steps leave the accumulator as it is.
C20_CriticStepRecords ==
    [][\A sub \in EvaluatesRealSamples :
          (~augment_pipe.fixed /\ Ran(sub)) =>
              IF sub = "d_step" THEN Recorded ELSE augment_pipe' = augment_pipe]_vars

C20_Witness ==
    /\ ~augment_pipe.fixed
    /\ last.substep = "patch_d_regularizer"
    /\ ~last.raised
    /\ global_step = 1
    /\ augment_pipe.n = 2

\* the critic's adversarial sub-steps of the trainer
CriticSteps ==
    IF HasPatchCritic(trainer) THEN {"d_step", "patch_d_step"} ELSE {"d_step"}

\* the controller update of the iteration: none before execute_ada_heuristics,
\* and after it one exactly when the cadence fires, as the last sub-step and
\* with every critic step before it
C24_Invoked ==
    LET fires == (global_step + 1) % config.ada_interval = 0
        updates == Occurrences(trace, "heuristic_update")
    IN  /\ pc \in (InIteration \ {"returned"}) \cup {"raised"} => updates = 0
        /\ pc = "returned" =>
              /\ updates = (IF fires THEN 1 ELSE 0)
              /\ fires =>
                    /\ trace[Len(trace)] = "heuristic_update"
                    /\ CriticSteps \subseteq Range(trace)

\* C24: the controller update is invoked on exactly the iterations with
\* (global_step + 1) mod ada_interval = 0, once, after the iteration's critic
\* steps; the augmentation probability changes in no other step of any
\* iteration.
C24_AdaCadence ==
    [][/\ C24_Invoked'
       /\ augment_pipe'.p # augment_pipe.p =>
             /\ pc = "ada"
             /\ (global_step + 1) % config.ada_interval = 0
             /\ trace' = Append(trace, "heuristic_update")]_vars

C24_Witness ==
    /\ pc = "returned"
    /\ global_step = 3
    /\ config.ada_interval = 2
    /\ ~augment_pipe.fixed
    /\ trace[Len(trace)] = "heuristic_update"
    /\ augment_pipe.p # config.ada_start_p

----------------------------------------------------------------------------
(* Properties of step(opt, module) (specification SpecStep) *)

\* C7: step rewrites every gradient that exists, entry by entry: NaN becomes
\* 0, +Inf becomes 1e5, -Inf becomes -1e5, a finite entry stays as it is; a
\* parameter without gradient stays without; then opt.step() runs once.
C7_StepSanitizes ==
    stepOut.done =>
        /\ stepOut.opt_steps = 1
        /\ \A p \in StepParams :
              /\ stepOut.grads[p].present = stepIn[p].present
              /\ Len(stepOut.grads[p].g) = Len(stepIn[p].g)
              /\ \A j \in DOMAIN stepIn[p].g :
                    LET before == stepIn[p].g[j]
                        after == stepOut.grads[p].g[j]
                    IN  /\ before[1] = "nan" => after = <<"fin", 0>>
                        /\ (before[1] = "inf" /\ before[2] > 0) => after = <<"fin", 100000>>
                        /\ (before[1] = "inf" /\ before[2] < 0) => after = <<"fin", -100000>>
                        /\ before[1] = "fin" => after = before

C7_Witness ==
    /\ stepOut.done
    /\ stepIn["weight"] = Grad(<<NegInf, Fin(200000)>>)
    /\ stepIn["bias"] = NoGrad

----------------------------------------------------------------------------
(* Properties of the patch sampler (specification SpecPatch) *)

\* C9: every crop lies inside the bounding box of the positive pixels of its
\* image's mask, rows and columns both, and is centered on a positive pixel.
C9_CropInsideBoundingBox ==
    \A i \in DOMAIN patches :
        LET c == patches[i]
            m == t_mask[c.image]
        IN  /\ c.center \in m
            /\ c.rows # {}
            /\ c.cols # {}
            /\ \A r \in c.rows : (\E q \in m : q[1] <= r) /\ (\E q \in m : q[1] >= r)
            /\ \A k \in c.cols : (\E q \in m : q[2] <= k) /\ (\E q \in m : q[2] >= k)
            /\ c.center[1] \in c.rows
            /\ c.center[2] \in c.cols

C9_Witness ==
    /\ outcome = "returned"
    /\ Len(t_mask) = 2
    /\ patches_per_view = 2

\* C10: for every patch size, even or odd, a call that does not fail for lack
\* of valid centers returns, for each image, patches_per_view image patches
\* and mask patches of patch_size x patch_size pixels over the same region.
C10_SizeBySizePatches ==
    outcome \in {"returned", "RuntimeError_reshape"} =>
        /\ outcome = "returned"
        /\ \A n \in DOMAIN t_mask :
              Cardinality({i \in DOMAIN patches : patches[i].image = n}) = patches_per_view
        /\ \A i \in DOMAIN patches :
              /\ Cardinality(patches[i].rows) = patch_size
              /\ Cardinality(patches[i].cols) = patch_size
              /\ patches[i].mask_rows = patches[i].rows
              /\ patches[i].mask_cols = patches[i].cols

\* an image of which the sampler cannot draw patches_per_view centers
Insufficient(m, ppv, ps) ==
    \/ m = {}
    \/ Cardinality(nz_mask(m, ps)) < ppv

\* the exceptions the sampler's library calls raise for want of candidates
SamplerErrors ==
    {"RuntimeError_min", "ValueError_sample"}

C11_State(errors) ==
    LET short == {n \in DOMAIN t_mask :
                     Insufficient(t_mask[n], patches_per_view, patch_size)}
    IN  /\ outcome \in {"running", "returned", "RuntimeError_reshape"} =>
              /\ \A n \in 1..(idx - 1) : n \notin short
              /\ Len(patches) = (idx - 1) * patches_per_view
        /\ outcome \in {"returned", "RuntimeError_reshape"} => idx = Len(t_mask) + 1
        /\ short # {} => outcome \in {"running"} \cup errors
        /\ outcome \in SamplerErrors \cup errors =>
              /\ idx \in short
              /\ \A n \in 1..(idx - 1) : n \notin short
              /\ Len(patches) = (idx - 1) * patches_per_view
              /\ \A i \in DOMAIN patches : patches[i].image < idx

\* C11 as stated: a batch with an image of fewer than patches_per_view valid
\* centers (a mask without positive pixel included) makes the sampler fail with
\* an InsufficientValidRegion error at that image; no call returns with fewer
\* patches, and the failed call has drawn nothing from the image or after it.
C11_InsufficientValidRegion ==
    C11_State({"InsufficientValidRegion"})

\* C11 amended: the failure is the exception of the library call that runs
\* out of candidates, ValueError from random.sample, or RuntimeError from
\* min() when the mask has no positive pixel; the rest as stated.
C11_LibraryErrorPropagates ==
    C11_State(SamplerErrors)

C11_Witness ==
    /\ outcome = "ValueError_sample"
    /\ idx = 2
    /\ Len(patches) = patches_per_view
    /\ patches_per_view = 2

\* distances of pixel p to the four edges of the bounding box of mask m
EdgeDistances(p, m) ==
    {p[1] - y_min(m), y_max(m) - p[1], p[2] - x_min(m), x_max(m) - p[2]}

\* the positive pixels of m at twice2 or more half-pixels from each of the
\* four edges of the bounding box (distances are doubled to stay whole)
FarFromEdges(m, twice2) ==
    LET y0 == y_min(m)
        y1 == y_max(m)
        x0 == x_min(m)
        x1 == x_max(m)
    IN  {p \in m : /\ 2 * (p[1] - y0) >= twice2
                   /\ 2 * (y1 - p[1]) >= twice2
                   /\ 2 * (p[2] - x0) >= twice2
                   /\ 2 * (x1 - p[2]) >= twice2}

\* the image whose candidate centers the latest extract_image step computed;
\* every image the sampler reaches is this image in the state after its step
LatestImage ==
    IF outcome = "ValueError_sample"
    THEN {idx}
    ELSE {n \in DOMAIN t_mask : n = idx - 1}

C21_State(twice2) ==
    \A n \in LatestImage :
        LET far == FarFromEdges(t_mask[n], twice2)
        IN  /\ nz_mask(t_mask[n], patch_size) = far
            /\ \A i \in DOMAIN patches :
                  patches[i].image = n => patches[i].center \in far

\* C21 as stated: the candidate centers of an image are exactly the positive
\* pixels at distance at least size/2 + 1 (twice the distance at least
\* size + 2) from each edge of the bounding box, and every center drawn is one.
C21_AtLeastHalfSizePlusOne ==
    C21_State(patch_size + 2)

\* C21 amended: the candidate centers of an image are exactly the positive
\* pixels at distance strictly greater than floor(size/2) + 1 (twice the
\* distance at least 2 * floor(size/2) + 3) from each edge of the bounding
\* box; a pixel at exactly floor(size/2) + 1 is discarded.
C21_BeyondHalfSizePlusOne ==
    C21_State(2 * (patch_size \div 2) + 3)

C21_Witness ==
    /\ outcome = "returned"
    /\ patch_size = 2
    /\ \E i \in DOMAIN patches :
          LET c == patches[i]
              m == t_mask[c.image]
          IN  /\ SetMin(EdgeDistances(c.center, m)) = patch_size \div 2 + 2
              /\ \E p \in m : SetMin(EdgeDistances(p, m)) = patch_size \div 2 + 1

\* the centers drawn for image n, in the order of the crops
CentersOf(n) ==
    SelectSeq(patches, LAMBDA c : c.image = n)

\* C22: the centers drawn for one image are pairwise distinct pixels, all of
\* them candidate centers of that image, patches_per_view of them once the
\* image is done.
C22_DistinctCandidateCenters ==
    \A n \in 1..(idx - 1) :
        LET cs == CentersOf(n)
            cands == nz_mask(t_mask[n], patch_size)
        IN  /\ Len(cs) = patches_per_view
            /\ \A i \in DOMAIN cs : cs[i].center \in cands
            /\ \A i, j \in DOMAIN cs : i # j => cs[i].center # cs[j].center

C22_Witness ==
    /\ idx = 2
    /\ patches_per_view = 2
    /\ Len(t_mask) = 2
    /\ Cardinality(nz_mask(t_mask[1], patch_size)) = patches_per_view
    /\ patches[1].center # patches[2].center

----------------------------------------------------------------------------
(* Properties of the shadow parameters (specification SpecEma) *)

\* pc values inside validation_epoch_end between store and the return
InSwap ==
    {"stored", "copied", "evaluated", "restored"}

ValuesEqual(f, g) ==
    /\ DOMAIN f = DOMAIN g
    /\ \A p \in DOMAIN f : FracEq(f[p], g[p])

\* C12: after store, copy_to, the evaluation and restore, every generator
\* parameter, trainable or not, has the value it had when store was called,
\* and no shadow value has changed anywhere in the sequence.
C12_StoreCopyRestore ==
    /\ pc = "restored" => ValuesEqual(G_params, at_store.live)
    /\ pc \in InSwap => ValuesEqual(shadow_params, at_store.shadow)
    /\ pc \in {"copied", "evaluated"} =>
          \A p \in GParams :
              FracEq(G_params[p],
                     IF p \in requires_grad THEN at_store.shadow[p] ELSE at_store.live[p])

C12_Witness ==
    /\ pc = "restored"
    /\ requires_grad = {"weight"}
    /\ global_step = 2
    /\ ~FracEq(shadow_params["weight"], G_params["weight"])
    /\ ~FracEq(G_params["bias"], G_params["weight"])

\* C13: the swap is exception-safe: when the evaluation between copy_to and
\* restore raises, restore has still run and the live generator parameters
\* have their values of before store.
C13_SwapExceptionSafe ==
    pc = "raised" => ValuesEqual(G_params, at_store.live)

\* C14: once the shadow parameter set exists, on_train_start and
\* on_validation_start leave it as it is: its values change only in a
\* training iteration's update.
C14_ShadowCreatedOnce ==
    [][(ema # "None" /\ ~ValuesEqual(shadow_params', shadow_params))
          => global_step' = global_step + 1]_vars

\* distance of the shadow value s from the live value v, over DecayDen^k
Distance(s, v, k) ==
    LET d == Lift(s, k)[1] - Lift(v, k)[1]
    IN  IF d < 0 THEN -d ELSE d

Side(s, v, k) ==
    LET d == Lift(s, k)[1] - Lift(v, k)[1]
    IN  IF d < 0 THEN -1 ELSE IF d > 0 THEN 1 ELSE 0

\* one update of the shadow value s to t under the live value v
MovesToward(s, t, v) ==
    /\ Distance(t, v, t[2]) <= Distance(s, v, t[2])
    /\ \/ Distance(t, v, t[2]) < Distance(s, v, t[2])
       \/ FracEq(s, v) /\ FracEq(t, v)
    /\ Side(t, v, t[2]) \in {0, Side(s, v, t[2])}

\* C16: with the decay 0.995 every update moves each shadow value strictly
\* closer to the live value it is given (or leaves it there), never further
\* away and never across it; so under a live value held constant the distance
\* is non-increasing over successive updates.
C16_EmaMonotone ==
    [][global_step' = global_step + 1 =>
          \A p \in DOMAIN shadow_params :
              MovesToward(shadow_params[p], shadow_params'[p], G_params'[p])]_vars

C16_Witness ==
    /\ global_step = 2
    /\ G_params["weight"] = <<1, 0>>
    /\ shadow_params["weight"] = <<DecayDen * DecayDen - DecayNum * DecayNum, 2>>

----------------------------------------------------------------------------
(* Properties of the regularizers' losses (specification SpecLoss) *)

\* C25: the loss a critic regularizer back-propagates, the main critic's and
\* the patch critic's alike, is lambda_gp x penalty x
\* lazy_gradient_penalty_interval, and the loss the generator's regularizer
\* back-propagates is lambda_plp x penalty x lazy_path_penalty_interval.
C25_OwnWeightOwnInterval ==
    last.backward =>
        /\ last.substep \in {"d_regularizer", "patch_d_regularizer"} =>
              last.loss = config.lambda_gp * last.penalty
                              * config.lazy_gradient_penalty_interval
        /\ last.substep = "g_regularizer" =>
              last.loss = config.lambda_plp * last.penalty
                              * config.lazy_path_penalty_interval

C25_Witness ==
    /\ last.backward
    /\ last.substep = "patch_d_regularizer"
    /\ last.penalty = 1
    /\ config.lambda_gp # config.lambda_plp
    /\ config.lazy_gradient_penalty_interval # config.lazy_path_penalty_interval
    /\ last.loss = 4

----------------------------------------------------------------------------
(* Properties of the parameters (specification SpecFrame) *)

\* the modules a sub-step may change
MayChange(t, cfg, sub) ==
    CASE sub \in {"g_step", "g_regularizer"} -> GOptModules(t, cfg)
      [] sub \in {"d_step", "d_regularizer"} -> {"D"}
      [] sub \in {"patch_d_step", "patch_d_regularizer"} -> {"patch_D"}
      [] sub = "ema_update" -> {"shadow"}

\* the modules whose parameters the step in progress changes
Changed ==
    {m \in DOMAIN param_version : param_version'[m] # param_version[m]}

\* C26: a generator sub-step changes no parameter of a critic or of the
\* shadow set, a critic sub-step none of the generator, the encoder, the other
\* critic or the shadow set, and the shadow set changes in the EMA update
\* only, whatever gradients earlier sub-steps left behind.
C26_OwnParametersOnly ==
    [][/\ Changed \subseteq MayChange(trainer, config, pc')
       /\ pc' \in {"g_step", "g_regularizer"} =>
             Changed \cap {"D", "patch_D", "shadow"} = {}
       /\ pc' \in {"d_step", "d_regularizer"} => Changed \subseteq {"D"}
       /\ pc' \in {"patch_d_step", "patch_d_regularizer"} => Changed \subseteq {"patch_D"}
       /\ "shadow" \in Changed => pc' = "ema_update"]_vars

C26_Witness ==
    /\ pc = "d_step"
    /\ HasPatchCritic(trainer)
    /\ {"G", "E", "patch_D"} \subseteq param_grad
    /\ param_version["D"] = 2
    /\ param_version["G"] = 1
    /\ param_version["patch_D"] = 0
    /\ param_version["shadow"] = 1

----------------------------------------------------------------------------
(* Properties of the lifecycle hooks (specification SpecHooks) *)

\* C27: in whatever order the hooks are called, with on_train_start before
\* the first training_step and on_validation_start before each
\* validation_epoch_end, no training_step and no validation_epoch_end finds
\* self.ema or self.R still None.
C27_NeverUsedWhileNone ==
    /\ pc # "AttributeError"
    /\ (\E i \in DOMAIN trace : trace[i] \in {"training_step", "validation_epoch_end"}) =>
          /\ ema # "None"
          /\ R # "None"

C27_Witness ==
    /\ pc = "fit"
    /\ Len(trace) >= 4
    /\ trace[1] = "on_validation_start"
    /\ trace[2] = "validation_epoch_end"
    /\ trace[3] = "on_train_start"
    /\ trace[4] = "training_step"

----------------------------------------------------------------------------
(* Properties of the patch critic's input (specification SpecShape) *)

\* the tensors the latest sub-step handed to self.patch_D
BuiltInputs ==
    {last.fake, last.real} \ {NoTensor, RuntimeError}

\* C28: for a batch whose size views_per_sample divides, the input built from
\* the real images and the one built from the rendered views have the same
\* shape, batch / views_per_sample samples of
\* 4 x views_per_sample x num_patch_per_view channels of patch_size x
\* patch_size, the channel count patch_D was constructed with; with an even
\* patch_size every input the sub-step is to build is built.
C28_PatchCriticInputShape ==
    config.batch % config.views_per_sample = 0 =>
        /\ \A x \in BuiltInputs :
              /\ x.shape = <<config.batch \div config.views_per_sample,
                             4 * config.views_per_sample * config.num_patch_per_view,
                             config.patch_size, config.patch_size>>
              /\ x.shape[2] = last.channels
        /\ config.patch_size % 2 = 0 => RuntimeError \notin {last.fake, last.real}
        /\ (pc = "patch_d_step" /\ config.patch_size % 2 = 0) =>
              /\ last.fake = last.real
              /\ last.fake # NoTensor

C28_Witness ==
    /\ pc = "patch_d_step"
    /\ config.batch = 4
    /\ config.views_per_sample = 2
    /\ config.num_patch_per_view = 2
    /\ last.fake = Tensor(<<2, 16, 2, 2>>)
    /\ last.real = Tensor(<<2, 16, 2, 2>>)

----------------------------------------------------------------------------
(* Properties of construction (specification SpecCadence) *)

InvalidCadence(cfg) ==
    \/ cfg.lazy_path_penalty_interval <= 0
    \/ cfg.lazy_gradient_penalty_interval <= 0
    \/ cfg.ada_interval <= 0

\* C18: a configuration with a cadence interval <= 0 never gets past
\* construction: no trainer is constructed from it, and no training iteration
\* raises because of it or runs with it.
C18_InvalidIntervalFailsAtConstruction ==
    InvalidCadence(config) => pc = "config"

----------------------------------------------------------------------------
(* Properties of create_trainer (specification SpecCreate) *)

Called ==
    calls > 0

\* C29: generate_experiment_name returns a name on every call.  With
\* config.resume set the name is that of the directory two levels above the
\* resume path, whatever the environment holds; without it a name found in
\* the environment is returned as it is, and otherwise one is generated;
\* after the call os.environ['experiment'] is the returned name.
C29_ExperimentName ==
    Called =>
        /\ pc = "returned"
        /\ ~last.resume.none =>
              experiment = PathName(Parents(last.resume.parts)[2])
        /\ (last.resume.none /\ last.environ \notin {<<>>, <<EmptyStr>>}) =>
              experiment = last.environ[1]
        /\ environ = <<experiment>>

\* C30: the Trainer is given val_check_interval = min(v', 1), a value in
\* (0, 1], and check_val_every_n_epoch = max(1, v'), a whole number >= 1,
\* where v' is the interval found on entry after truncation and scaling by
\* the device count.
C30_ValidationSchedule ==
    (Called /\ pc = "returned") =>
        LET v == scale_interval(truncate_interval(last.val_check_interval), gpu_count)
        IN  /\ trainer_kwargs.val_check_interval = val_check_interval_arg(v)
            /\ trainer_kwargs.val_check_interval > 0
            /\ trainer_kwargs.val_check_interval <= IntervalDen
            /\ trainer_kwargs.check_val_every_n_epoch = check_val_every_n_epoch_arg(v)
            /\ trainer_kwargs.check_val_every_n_epoch >= IntervalDen
            /\ trainer_kwargs.check_val_every_n_epoch % IntervalDen = 0

====
